---- MODULE Spec2Model ----
(***************************************************************************)
(* Chain manager of the Albatross blockchain client                        *)
(* (blockchain-albatross/src/blockchain.rs): block admission (push,        *)
(* push_isolated_macro_block), fork choice (order_chains), extend,         *)
(* rebranch and the derived in-memory state.                               *)
(*                                                                         *)
(* A hash is modelled as an ideal (injective) hash: the hash of a block is *)
(* the record of its header-committed fields.  Signatures, VRF seeds and   *)
(* proofs are modelled by what their verification returns.                 *)
(***************************************************************************)
EXTENDS Integers, Sequences, FiniteSets, TLC

VARIABLES
    chain_store,    \* ChainStore: hash -> ChainInfo record
    receipts,       \* ChainStore receipts: block numbers holding receipts
    state,          \* BlockchainState
    isolated,       \* number of blocks push_isolated_macro_block has admitted
    threads,        \* per calling thread: its position in push and its call
    push_lock,      \* holder of Blockchain::push_lock
    state_lock,     \* writer of the RwLock of BlockchainState
    admissions,     \* the events of the admissions, in the order of their commits
    delivered,      \* the events handed to the notifier, in order
    calls,          \* number of calls started by the threads
    query           \* a call of a function of the chain manager: arguments and result

chainVars == <<chain_store, receipts, state, isolated>>
lockVars == <<threads, push_lock, state_lock, admissions, delivered, calls>>
vars == <<chain_store, receipts, state, isolated,
          threads, push_lock, state_lock, admissions, delivered, calls, query>>

----------------------------------------------------------------------------
(* Bounds of the model.  The policy values are scaled down so that macro   *)
(* and election blocks are reached.                                        *)

BATCH_LENGTH == 3
EPOCH_LENGTH == 2 * BATCH_LENGTH
TRANSACTION_VALIDITY_WINDOW == 2
MaxHeight == 6
MaxView == 1
MaxBlocks == 6
MaxForks == 2
MaxIsolated == 2
NumTxs == 1
TIMESTAMP_MAX_DRIFT == 1
NumThreads == 2
MaxCalls == 3
SLOTS == 4
MaxValidators == 3
MaxReward == 5
MaxFees == 1
MaxProofs == 2
MaxChain == 30
MaxCount == 16
MaxRound == 2

\* The wall clock (OffsetTime::now) is ahead of every honest timestamp.
Now == MaxHeight + 1

Txs == 1..NumTxs
\* The all-zero hash (no block), and the hash of a block this node never saw.
NoHash == [hash |-> "zero"]
UnknownHash == [hash |-> "unknown"]

\* Option::None of a ChainInfo or Block lookup.
None == [none |-> TRUE]

\* Validator lists: none, the list select_validators yields for the election
\* block of a height, a list that differs from it, and Slots::default().
NoValidators == [none |-> TRUE]
WrongValidators == [wrong |-> TRUE]
Validators(n) == [slots |-> n]
DefaultSlots == [default |-> TRUE]

----------------------------------------------------------------------------
(* policy                                                                  *)

is_macro_block_at(n) == n % BATCH_LENGTH = 0
is_election_block_at(n) == n % EPOCH_LENGTH = 0
epoch_at(n) == (n + EPOCH_LENGTH - 1) \div EPOCH_LENGTH
last_macro_block(n) == (n \div BATCH_LENGTH) * BATCH_LENGTH
last_election_block(n) == (n \div EPOCH_LENGTH) * EPOCH_LENGTH
election_block_after(n) == (n \div EPOCH_LENGTH + 1) * EPOCH_LENGTH
election_block_before(n) == IF n = 0 THEN 0 ELSE ((n - 1) \div EPOCH_LENGTH) * EPOCH_LENGTH

----------------------------------------------------------------------------
(* Blocks                                                                  *)

HeaderFields == {"ty", "block_number", "view_number", "timestamp", "parent_hash",
                 "state_root", "seed", "body_root", "transactions",
                 "parent_election_hash", "validators", "history_root", "body_sets"}

\* Blake2b hash of the header; the body fields are committed by body_root.
Hash(block) == [f \in HeaderFields |-> block[f]]

GenesisBlock ==
    [ty |-> "Macro", block_number |-> 0, view_number |-> 0, timestamp |-> 0,
     parent_hash |-> NoHash, state_root |-> {}, seed |-> "Valid",
     body_root |-> "OfBody", transactions |-> {},
     parent_election_hash |-> NoHash, validators |-> Validators(0), history_root |-> {},
     body_sets |-> "Computed",
     justification |-> "None", view_change_proof |-> "None"]

GenesisHash == Hash(GenesisBlock)

\* MacroBlock::is_election_block: the body carries a validator list.
is_election_block(block) == block.ty = "Macro" /\ block.validators # NoValidators

\* Block::next_view_number: the view number resets after a macro block.
next_view_number(block) == IF block.ty = "Macro" THEN 0 ELSE block.view_number

\* Block::verify: the structural checks of a block on its own.
BlockVerify(block) ==
    IF block.ty = "Macro"
    THEN /\ block.transactions = {}
         /\ block.view_change_proof = "None"
         /\ (block.validators # NoValidators) = is_election_block_at(block.block_number)
    ELSE /\ block.validators = NoValidators
         /\ block.body_root = "OfBody"

\* Slots of an election block (TryFrom<MacroBlock> for Slots).
slots_from_block(block) == block.validators

\* StakingContract::select_validators for the election block at this height.
next_slots(block) == Validators(block.block_number)

----------------------------------------------------------------------------
(* ChainInfo and ChainStore                                                *)

ChainInfo(block, on_main, successor) ==
    [head |-> block, on_main_chain |-> on_main, main_chain_successor |-> successor]

get_chain_info(store, hash) == IF hash \in DOMAIN store THEN store[hash] ELSE None

put_chain_info(store, hash, info) ==
    [h \in DOMAIN store \cup {hash} |-> IF h = hash THEN info ELSE store[h]]

remove_chain_info(store, hash) == [h \in DOMAIN store \ {hash} |-> store[h]]

\* The main-chain record of a height, through the height index.
get_chain_info_at(store, height) ==
    LET at == {h \in DOMAIN store :
                  store[h].head.block_number = height /\ store[h].on_main_chain}
    IN IF at = {} THEN None ELSE store[CHOOSE h \in at : TRUE]

\* All stored blocks of a height, forks included.
get_blocks_at(store, height) ==
    {store[h].head : h \in {k \in DOMAIN store : store[k].head.block_number = height}}

RECURSIVE get_blocks_backward(_, _, _)
get_blocks_backward(store, start, count) ==
    IF count = 0 \/ start \notin DOMAIN store THEN <<>>
    ELSE LET prev == store[start].head.parent_hash
         IN IF prev \notin DOMAIN store THEN <<>>
            ELSE <<store[prev].head>> \o get_blocks_backward(store, prev, count - 1)

RECURSIVE get_blocks_forward(_, _, _)
get_blocks_forward(store, start, count) ==
    IF count = 0 \/ start \notin DOMAIN store THEN <<>>
    ELSE LET next == store[start].main_chain_successor
         IN IF next \notin DOMAIN store THEN <<>>
            ELSE <<store[next].head>> \o get_blocks_forward(store, next, count - 1)

----------------------------------------------------------------------------
(* TransactionCache: the descriptors of the last blocks, oldest first      *)

CacheDescriptor(block) == [hash |-> Hash(block), transactions |-> block.transactions]

cache_hashes(cache) == UNION {cache[i].transactions : i \in 1..Len(cache)}

contains_any(cache, block) == block.transactions \cap cache_hashes(cache) # {}

cache_push_block(cache, block) ==
    LET c == Append(cache, CacheDescriptor(block))
    IN IF Len(c) > TRANSACTION_VALIDITY_WINDOW THEN Tail(c) ELSE c

cache_revert_block(cache, block) ==
    IF cache = <<>> THEN cache ELSE SubSeq(cache, 1, Len(cache) - 1)

cache_prepend_block(cache, block) == <<CacheDescriptor(block)>> \o cache

missing_blocks(cache) == TRANSACTION_VALIDITY_WINDOW - Len(cache)

RECURSIVE cache_prepend_all(_, _)
cache_prepend_all(cache, blocks) ==
    IF blocks = <<>> THEN cache
    ELSE cache_prepend_all(cache_prepend_block(cache, Head(blocks)), Tail(blocks))

----------------------------------------------------------------------------
(* Accounts: the tree is the set of applied (block, transactions,          *)
(* inherents) entries; its root hash is that set.                          *)

ViewChangeSlashes(first_view_number, view_number) ==
    IF view_number > first_view_number THEN view_number - first_view_number ELSE 0

AccountsEntry(block_number, transactions, inherents) ==
    [block_number |-> block_number, transactions |-> transactions, inherents |-> inherents]

accounts_commit(accounts, entry) == accounts \cup {entry}
accounts_revert(accounts, entry) == accounts \ {entry}
accounts_hash(accounts) == accounts

----------------------------------------------------------------------------
(* Fork choice                                                             *)

\* The walk of order_chains from the predecessor back to the main chain:
\* the view numbers of the branch (newest first) and the first branch block.
RECURSIVE BranchWalk(_, _, _, _)
BranchWalk(store, prev, view_numbers, current_height) ==
    IF prev.on_main_chain
    THEN [panic |-> FALSE, view_numbers |-> view_numbers, current_height |-> current_height]
    ELSE IF prev.head.ty # "Micro" \/ prev.head.parent_hash \notin DOMAIN store
    THEN [panic |-> TRUE, view_numbers |-> view_numbers, current_height |-> current_height]
    ELSE BranchWalk(store, store[prev.head.parent_hash],
                    Append(view_numbers, prev.head.view_number),
                    prev.head.block_number)

\* The comparison that favours the branch whenever the view numbers differ.
CompareViewsBranchWins(main_view, branch_view) ==
    IF main_view # branch_view THEN "Better" ELSE "Unknown"

\* The comparison with the lower view number winning.
CompareViewsLowerWins(main_view, branch_view) ==
    IF main_view > branch_view THEN "Better"
    ELSE IF main_view < branch_view THEN "Inferior"
    ELSE "Unknown"

\* The comparison of two view numbers of one height: Ordering::Less makes the
\* branch Better, Ordering::Greater makes it Inferior.
CompareViews(main_view, branch_view) ==
    IF main_view < branch_view THEN "Better"
    ELSE IF main_view > branch_view THEN "Inferior"
    ELSE "Unknown"

\* The loop over the common heights, from the first branch block upwards.
RECURSIVE CompareHeights(_, _, _, _)
CompareHeights(store, view_numbers, h, min_height) ==
    IF h > min_height THEN "Unknown"
    ELSE IF view_numbers = <<>> \/ get_chain_info_at(store, h) = None THEN "Panic"
    ELSE LET c == CompareViews(get_chain_info_at(store, h).head.view_number,
                               view_numbers[Len(view_numbers)])
         IN IF c # "Unknown" THEN c
            ELSE CompareHeights(store, SubSeq(view_numbers, 1, Len(view_numbers) - 1),
                                h + 1, min_height)

Min(a, b) == IF a < b THEN a ELSE b

\* A chain that is as long as the main chain counts as longer.
LongerOrEqualChain(head_height, block_number) == head_height <= block_number

\* The rule for branches that tie on every view number: the longer chain.
LongerChain(head_height, block_number) == head_height < block_number

order_chains(store, st, block, prev_info) ==
    IF block.parent_hash = st.head_hash THEN "Extend"
    ELSE LET w == BranchWalk(store, prev_info, <<block.view_number>>, block.block_number)
             head_height == st.main_chain.head.block_number
         IN IF w.panic THEN "Panic"
            ELSE LET c == CompareHeights(store, w.view_numbers, w.current_height,
                                         Min(head_height, block.block_number))
                 IN IF c = "Unknown" /\ LongerChain(head_height, block.block_number)
                    THEN "Better" ELSE c

----------------------------------------------------------------------------
(* Block verifier                                                          *)

get_next_block_type(last_number) ==
    IF is_macro_block_at(last_number + 1) THEN "Macro" ELSE "Micro"

\* Blockchain::get_slot_at is None when the slots of the epoch or the
\* main-chain block before block_number cannot be loaded.
get_slot_at(store, st, block_number) ==
    LET head_number == st.main_chain.head.block_number
        cached == \/ epoch_at(head_number) = epoch_at(block_number)
                  \/ /\ ~is_election_block_at(head_number)
                     /\ epoch_at(head_number) = epoch_at(block_number) + 1
    IN IF block_number < 1 THEN None
       ELSE IF ~cached /\ get_chain_info_at(store, election_block_before(block_number)) = None
       THEN None
       ELSE IF get_chain_info_at(store, block_number - 1) = None THEN None
       ELSE [slot |-> TRUE]

\* The view number a successor of prev must reach: 0 in a new batch.
EffectiveView(header, prev_info) ==
    IF is_macro_block_at(header.block_number - 1) THEN 0 ELSE prev_info.head.view_number

\* The timestamp rule that rejects only a smaller timestamp.
TimestampTooOldStrict(prev_timestamp, timestamp) == prev_timestamp > timestamp

\* The timestamp rule: rejected unless above the predecessor's timestamp.
TimestampTooOld(prev_timestamp, timestamp) == prev_timestamp >= timestamp

\* The outcome of the view number comparison and of the view-change proof.
ViewChangeCheck(new_view_number, view_number, view_change_proof) ==
    IF new_view_number < view_number THEN "InvalidViewNumber"
    ELSE IF new_view_number > view_number
    THEN CASE view_change_proof = "None" -> "NoViewChangeProof"
           [] view_change_proof = "Invalid" -> "InvalidJustification"
           [] OTHER -> "Ok"
    ELSE IF view_change_proof \in {"Valid", "Invalid"} THEN "InvalidJustification"
    ELSE "Ok"

\* The header checks with the seed verified before the view number.
VerifySeedBeforeView(store, st, header, view_change_proof) ==
    LET prev_info == get_chain_info(store, header.parent_hash)
    IN IF prev_info = None THEN "Orphan"
       ELSE IF get_next_block_type(prev_info.head.block_number) # header.ty
       THEN "InvalidSuccessor"
       ELSE IF prev_info.head.block_number + 1 # header.block_number
       THEN "InvalidSuccessor"
       ELSE IF TimestampTooOld(prev_info.head.timestamp, header.timestamp)
       THEN "InvalidSuccessor"
       ELSE IF header.timestamp - Now > TIMESTAMP_MAX_DRIFT THEN "FromTheFuture"
       ELSE IF header.seed # "Valid" THEN "InvalidJustification"
       ELSE LET vc == ViewChangeCheck(header.view_number,
                                      EffectiveView(header, prev_info), view_change_proof)
            IN IF vc # "Ok" THEN vc
               ELSE IF header.ty = "Macro"
                       /\ header.parent_election_hash # st.election_head_hash
               THEN "InvalidSuccessor"
               ELSE "Ok"

\* Ok or the PushError; view_change_proof is "Skip" for macro blocks.
verify_block_header(store, st, header, view_change_proof) ==
    LET prev_info == get_chain_info(store, header.parent_hash)
    IN IF prev_info = None THEN "Orphan"
       ELSE IF get_next_block_type(prev_info.head.block_number) # header.ty
       THEN "InvalidSuccessor"
       ELSE IF prev_info.head.block_number + 1 # header.block_number
       THEN "InvalidSuccessor"
       ELSE IF TimestampTooOld(prev_info.head.timestamp, header.timestamp)
       THEN "InvalidSuccessor"
       ELSE IF header.timestamp - Now > TIMESTAMP_MAX_DRIFT THEN "FromTheFuture"
       ELSE LET vc == ViewChangeCheck(header.view_number,
                                      EffectiveView(header, prev_info), view_change_proof)
            IN IF vc # "Ok" THEN vc
               ELSE IF header.seed # "Valid" THEN "InvalidJustification"
               ELSE IF header.ty = "Macro"
                       /\ header.parent_election_hash # st.election_head_hash
               THEN "InvalidSuccessor"
               ELSE "Ok"

----------------------------------------------------------------------------
(* Commit / revert engine                                                  *)

\* Blockchain::commit_accounts inside the write transaction: the error (or
\* Ok), the accounts and the receipts of the transaction.
commit_accounts(accounts, rcpts, first_view_number, chain_info) ==
    LET block == chain_info.head
        entry == AccountsEntry(block.block_number, block.transactions,
                               ViewChangeSlashes(first_view_number, block.view_number))
        committed == accounts_commit(accounts, entry)
        stored == IF block.ty = "Macro" THEN {} ELSE rcpts \cup {block.block_number}
    IN [err |-> IF block.state_root # accounts_hash(committed)
                THEN "AccountsHashMismatch" ELSE "Ok",
        accounts |-> committed, receipts |-> stored]

\* Blockchain::revert_accounts: panics on a wrong state root or on missing
\* receipts, else undoes the block's entry.
revert_accounts(accounts, rcpts, micro_block, prev_view_number) ==
    LET entry == AccountsEntry(micro_block.block_number, micro_block.transactions,
                               ViewChangeSlashes(prev_view_number, micro_block.view_number))
    IN IF micro_block.state_root # accounts_hash(accounts)
          \/ micro_block.block_number \notin rcpts
          \/ entry \notin accounts
       THEN [panic |-> TRUE, accounts |-> accounts]
       ELSE [panic |-> FALSE, accounts |-> accounts_revert(accounts, entry)]

----------------------------------------------------------------------------
(* Outcomes of a call: the value it returns, the store and in-memory state *)
(* it leaves, and the events it publishes                                  *)

Outcome(res, store, rcpts, st, evs) ==
    [result |-> res, store |-> store, receipts |-> rcpts, state |-> st, events |-> evs,
     fork_events |-> {}, removed |-> <<>>]

\* An error, a panic or a no-op result: aborted transactions leave no trace.
Unchanged(res) == Outcome(res, chain_store, receipts, state, <<>>)

\* The check of the macro body against the validators and the slashed sets.
MacroBodyCheck(block) ==
    IF is_election_block(block) /\ next_slots(block) # block.validators
    THEN "InvalidValidators"
    ELSE IF block.body_sets # "Computed" \/ block.body_root # "OfBody"
    THEN "BodyHashMismatch"
    ELSE "Ok"

\* The update that installs the new slots without keeping the old ones.
MacroStateUpdateNoRotation(st, block_hash, chain_info) ==
    LET m == [st EXCEPT !.macro_info = chain_info, !.macro_head_hash = block_hash]
    IN IF is_election_block(chain_info.head)
       THEN [m EXCEPT !.election_head = chain_info.head,
                      !.election_head_hash = block_hash,
                      !.current_slots = slots_from_block(chain_info.head)]
       ELSE m

\* The in-memory update of extend and extend_isolated_macro for a macro block.
MacroStateUpdate(st, block_hash, chain_info) ==
    LET m == [st EXCEPT !.macro_info = chain_info, !.macro_head_hash = block_hash]
    IN IF is_election_block(chain_info.head)
       THEN [m EXCEPT !.election_head = chain_info.head,
                      !.election_head_hash = block_hash,
                      !.previous_slots = st.current_slots,
                      !.current_slots = slots_from_block(chain_info.head)]
       ELSE m

\* Every extension announced as Finalized.
FinalizedEvent(block_hash, block) == [type |-> "Finalized", hash |-> block_hash]

\* The event of an extension.
ExtendedEvent(block_hash, block) ==
    IF is_election_block(block)
    THEN [type |-> "EpochFinalized", hash |-> block_hash]
    ELSE [type |-> "Finalized", hash |-> block_hash]

\* The two records extend writes: the new block and its predecessor.
ExtendStore(store, block_hash, chain_info, prev_info) ==
    put_chain_info(
        put_chain_info(store, block_hash,
                       [chain_info EXCEPT !.on_main_chain = TRUE]),
        chain_info.head.parent_hash,
        [prev_info EXCEPT !.main_chain_successor = Hash(chain_info.head)])

\* The replay check that never finds a duplicate.
ReplayCheckSkipped(cache, block) == FALSE

\* The replay check of extend against the transaction cache.
ReplayCheck(cache, block) == contains_any(cache, block)

\* The cache left as it is.
ExtendCacheSkipped(cache, block) == cache

\* The transaction cache after extend: the block pushed under the write lock.
ExtendCache(cache, block) == cache_push_block(cache, block)

\* The accounts of the write transaction kept although the block is rejected.
ExtendAbortMissing(res, committed) ==
    Outcome(res, chain_store, receipts, [state EXCEPT !.accounts = committed], <<>>)

\* A rejection inside extend: the write transaction with the committed
\* accounts is aborted.
ExtendAbort(res, committed) == Unchanged(res)

extend(block_hash, chain_info, prev_info) ==
    IF ReplayCheck(state.transaction_cache, chain_info.head)
    THEN Unchanged("DuplicateTransaction")
    ELSE LET c == commit_accounts(state.accounts, receipts,
                                  next_view_number(prev_info.head), chain_info)
             body == IF chain_info.head.ty = "Macro"
                     THEN MacroBodyCheck(chain_info.head) ELSE "Ok"
             info == [chain_info EXCEPT !.on_main_chain = TRUE]
             pushed == [state EXCEPT
                          !.accounts = c.accounts,
                          !.transaction_cache =
                              ExtendCache(state.transaction_cache, info.head)]
             st1 == IF info.head.ty = "Macro"
                    THEN MacroStateUpdate(pushed, block_hash, info) ELSE pushed
             st2 == [st1 EXCEPT !.main_chain = info, !.head_hash = block_hash]
         IN IF c.err # "Ok" THEN ExtendAbort(c.err, c.accounts)
            ELSE IF body # "Ok" THEN ExtendAbort(body, c.accounts)
            ELSE Outcome("Extended",
                         ExtendStore(chain_store, block_hash, chain_info, prev_info),
                         c.receipts, st2, <<ExtendedEvent(block_hash, info.head)>>)

----------------------------------------------------------------------------
(* Rebranch                                                                *)

Entry(hash, info) == [hash |-> hash, info |-> info]

\* Walk up the fork until a block of the main chain: the fork chain (tip
\* first) and the common ancestor.
RECURSIVE ForkWalk(_, _, _, _)
ForkWalk(store, hash, info, fork_chain) ==
    IF info.on_main_chain
    THEN [panic |-> FALSE, fork_chain |-> fork_chain, ancestor |-> Entry(hash, info)]
    ELSE IF info.head.ty # "Micro" \/ info.head.parent_hash \notin DOMAIN store
    THEN [panic |-> TRUE, fork_chain |-> fork_chain, ancestor |-> Entry(hash, info)]
    ELSE ForkWalk(store, info.head.parent_hash, store[info.head.parent_hash],
                  Append(fork_chain, Entry(hash, info)))

\* No ancestor counts as finalized.
AncestorNeverFinalized(ancestor_number, macro_number) == FALSE

\* The check that also forbids a rebranch from the macro head itself.
AncestorNotAfterMacro(ancestor_number, macro_number) == ancestor_number <= macro_number

\* The check that forbids a rebranch below the macro head.
AncestorFinalized(ancestor_number, macro_number) == ancestor_number < macro_number

\* Revert the main chain from the head down to the ancestor.
RECURSIVE RevertWalk(_, _, _, _, _, _, _)
RevertWalk(store, rcpts, current, ancestor_hash, accounts, cache, revert_chain) ==
    IF current.hash = ancestor_hash
    THEN [panic |-> FALSE, accounts |-> accounts, cache |-> cache,
          revert_chain |-> revert_chain]
    ELSE IF current.info.head.ty = "Macro"
            \/ current.info.head.parent_hash \notin DOMAIN store
    THEN [panic |-> TRUE, accounts |-> accounts, cache |-> cache,
          revert_chain |-> revert_chain]
    ELSE LET prev_hash == current.info.head.parent_hash
             prev_info == store[prev_hash]
             r == revert_accounts(accounts, rcpts, current.info.head,
                                  prev_info.head.view_number)
         IN IF r.panic \/ prev_info.head.state_root # accounts_hash(r.accounts)
            THEN [panic |-> TRUE, accounts |-> accounts, cache |-> cache,
                  revert_chain |-> revert_chain]
            ELSE RevertWalk(store, rcpts, Entry(prev_hash, prev_info), ancestor_hash,
                            r.accounts, cache_revert_block(cache, current.info.head),
                            Append(revert_chain, current))

\* Fetch the blocks the reverted cache misses; panics as the asserts do.
RefillCache(store, cache, ancestor) ==
    LET start_hash == IF cache = <<>> THEN ancestor.info.main_chain_successor
                      ELSE cache[1].hash
        blocks == get_blocks_backward(store, start_hash, missing_blocks(cache))
        filled == cache_prepend_all(cache, blocks)
        expected == IF TRANSACTION_VALIDITY_WINDOW > ancestor.info.head.block_number + 1
                    THEN TRANSACTION_VALIDITY_WINDOW - (ancestor.info.head.block_number + 1)
                    ELSE 0
    IN IF cache # <<>> /\ cache[Len(cache)].hash # ancestor.hash
       THEN [panic |-> TRUE, cache |-> cache]
       ELSE IF cache = <<>> /\ start_hash = NoHash
       THEN [panic |-> TRUE, cache |-> cache]
       ELSE [panic |-> missing_blocks(filled) # expected, cache |-> filled]

\* Apply the fork blocks from the ancestor to the tip; failed is the index
\* of the first block that cannot be applied (0: none).
RECURSIVE ApplyFork(_, _, _, _, _, _)
ApplyFork(chain, i, accounts, rcpts, cache, prev_view_number) ==
    IF i > Len(chain)
    THEN [failed |-> 0, accounts |-> accounts, receipts |-> rcpts, cache |-> cache]
    ELSE LET info == chain[i].info
             c == commit_accounts(accounts, rcpts, prev_view_number, info)
         IN IF contains_any(cache, info.head) \/ c.err # "Ok"
            THEN [failed |-> i, accounts |-> accounts, receipts |-> rcpts, cache |-> cache]
            ELSE ApplyFork(chain, i + 1, c.accounts, c.receipts,
                           cache_push_block(cache, info.head),
                           next_view_number(info.head))

Reverse(seq) == [i \in 1..Len(seq) |-> seq[Len(seq) + 1 - i]]

RECURSIVE RemoveAll(_, _, _)
RemoveAll(store, chain, i) ==
    IF i > Len(chain) THEN store
    ELSE RemoveAll(remove_chain_info(store, chain[i].hash), chain, i + 1)

\* The reverted blocks left flagged as they were.
RevertedKept(store, revert_chain, i) == store

\* Unset the main-chain flag and successor of the reverted blocks.
RECURSIVE UnsetReverted(_, _, _)
UnsetReverted(store, revert_chain, i) ==
    IF i > Len(revert_chain) THEN store
    ELSE UnsetReverted(
             put_chain_info(store, revert_chain[i].hash,
                            [revert_chain[i].info EXCEPT !.on_main_chain = FALSE,
                                                         !.main_chain_successor = NoHash]),
             revert_chain, i + 1)

\* The fork block i (tip first) as a main-chain record.
AdoptedInfo(fork_chain, i) ==
    [fork_chain[i].info EXCEPT
        !.on_main_chain = TRUE,
        !.main_chain_successor = IF i > 1 THEN fork_chain[i - 1].hash ELSE NoHash]

\* Set the main-chain flag and successor of the fork blocks.
RECURSIVE SetAdopted(_, _, _)
SetAdopted(store, fork_chain, i) ==
    IF i < 1 THEN store
    ELSE SetAdopted(put_chain_info(store, fork_chain[i].hash, AdoptedInfo(fork_chain, i)),
                    fork_chain, i - 1)

HashesOf(chain) == [i \in 1..Len(chain) |-> chain[i].hash]

\* The remove_chain_info calls after a failed replay: the rejected block and
\* the rest of the fork, every call with the height of the rejected block.
RemoveCalls(chain, failed) ==
    [i \in 1..(Len(chain) + 1 - failed) |->
        [hash |-> chain[failed + i - 1].hash,
         height |-> chain[failed].info.head.block_number]]

rebranch(block_hash, chain_info) ==
    LET f == ForkWalk(chain_store, block_hash, chain_info, <<>>)
    IN IF f.panic THEN Unchanged("Panic")
       ELSE IF AncestorFinalized(f.ancestor.info.head.block_number,
                                 state.macro_info.head.block_number)
       THEN Unchanged("InvalidFork")
       ELSE
       LET r == RevertWalk(chain_store, receipts, Entry(state.head_hash, state.main_chain),
                           f.ancestor.hash, state.accounts, state.transaction_cache, <<>>)
           filled == RefillCache(chain_store, r.cache, f.ancestor)
           chain == Reverse(f.fork_chain)
           a == ApplyFork(chain, 1, r.accounts, receipts, filled.cache,
                          next_view_number(f.ancestor.info.head))
           store1 == UnsetReverted(chain_store, r.revert_chain, 1)
           store2 == put_chain_info(store1, f.ancestor.hash,
                         [f.ancestor.info EXCEPT
                             !.main_chain_successor = f.fork_chain[Len(f.fork_chain)].hash])
           store3 == SetAdopted(store2, f.fork_chain, Len(f.fork_chain))
           st == [state EXCEPT !.accounts = a.accounts,
                               !.transaction_cache = a.cache,
                               !.main_chain = AdoptedInfo(f.fork_chain, 1),
                               !.head_hash = f.fork_chain[1].hash]
       IN IF r.panic \/ filled.panic THEN Unchanged("Panic")
          ELSE IF a.failed # 0
          THEN [Outcome("InvalidFork", RemoveAll(chain_store, chain, a.failed),
                        receipts, state, <<>>)
                   EXCEPT !.removed = RemoveCalls(chain, a.failed)]
          ELSE Outcome("Rebranched", store3, a.receipts, st,
                       <<[type |-> "Rebranched",
                          reverted |-> HashesOf(Reverse(r.revert_chain)),
                          adopted |-> HashesOf(chain)]>>)

----------------------------------------------------------------------------
(* Chain manager: push                                                     *)

\* A new record that is on the main chain from the start.
NewChainInfoOnMain(block) == ChainInfo(block, TRUE, NoHash)

\* ChainInfo::new: a record that is not on the main chain yet.
NewChainInfo(block) == ChainInfo(block, FALSE, NoHash)

\* The view-change proof check skipped for every block.
ViewChangeProofSkipped(block) == "Skip"

\* The view-change proof handed to the verifier: macro blocks skip the check.
ViewChangeProofCheck(block) ==
    IF block.ty = "Macro" THEN "Skip" ELSE block.view_change_proof

\* The checks of the justification and of the body hash after the header.
JustificationCheck(block) ==
    IF block.ty = "Micro"
    THEN IF block.justification # "Valid" THEN "InvalidJustification" ELSE "Ok"
    ELSE IF block.justification = "None" THEN "NoJustification"
    ELSE IF block.justification # "Valid" THEN "InvalidJustification"
    ELSE IF block.body_root # "OfBody" THEN "BodyHashMismatch"
    ELSE "Ok"

\* The fork proofs notified for a verified micro block: one per stored
\* block of its height with its view number.
DetectedForks(store, block) ==
    {[header1 |-> Hash(block), header2 |-> Hash(other)] :
        other \in {b \in get_blocks_at(store, block.block_number) :
                      b.view_number = block.view_number}}

\* The dispatch on the chain ordering once the block is verified.
Dispatch(chain_order, block, prev_info) ==
    LET chain_info == NewChainInfo(block)
    IN CASE chain_order = "Extend" -> extend(Hash(block), chain_info, prev_info)
         [] chain_order = "Better" -> rebranch(Hash(block), chain_info)
         [] OTHER -> Outcome("Forked",
                             put_chain_info(chain_store, Hash(block), chain_info),
                             receipts, state, <<>>)

\* Only the records of the main chain count as known.
KnownOnMain(store, hash) == hash \in DOMAIN store /\ store[hash].on_main_chain

\* No block counts as known.
KnownNever(store, hash) == FALSE

\* The dedupe on the hash: a record under the hash, on the main chain or not.
KnownBlock(store, hash) == hash \in DOMAIN store

push_block(block) ==
    LET hash == Hash(block)
        prev_info == get_chain_info(chain_store, block.parent_hash)
        chain_order == order_chains(chain_store, state, block, prev_info)
        header == verify_block_header(chain_store, state, block,
                                      ViewChangeProofCheck(block))
        justification == JustificationCheck(block)
        micro_at_height == \A b \in get_blocks_at(chain_store, block.block_number) :
                               b.ty = "Micro"
        forks == IF block.ty = "Micro" /\ micro_at_height
                 THEN DetectedForks(chain_store, block) ELSE {}
    IN IF KnownBlock(chain_store, hash) THEN Unchanged("Known")
       ELSE IF ~BlockVerify(block) THEN Unchanged("InvalidBlock")
       ELSE IF prev_info = None THEN Unchanged("Orphan")
       ELSE IF chain_order = "Panic" THEN Unchanged("Panic")
       ELSE IF chain_order = "Inferior" THEN Unchanged("Ignored")
       ELSE IF get_slot_at(chain_store, state, block.block_number) = None
       THEN Unchanged("Panic")
       ELSE IF header # "Ok" THEN Unchanged(header)
       ELSE IF block.ty = "Micro" /\ justification # "Ok" THEN Unchanged(justification)
       ELSE IF block.ty = "Micro" /\ ~micro_at_height
       THEN [Unchanged("Panic") EXCEPT !.fork_events = forks]
       ELSE IF justification # "Ok"
       THEN [Unchanged(justification) EXCEPT !.fork_events = forks]
       ELSE [Dispatch(chain_order, block, prev_info) EXCEPT !.fork_events = forks]

----------------------------------------------------------------------------
(* Chain manager: push_isolated_macro_block                                *)

\* merkle::compute_root_from_hashes of the transaction list.
compute_root_from_hashes(transactions) == transactions

\* Revert the micro blocks after the macro head, last one first.
RECURSIVE RevertBatch(_, _, _, _, _)
RevertBatch(blocks, i, rcpts, accounts, cache) ==
    IF i < 1 THEN [err |-> "Ok", accounts |-> accounts, cache |-> cache]
    ELSE IF blocks[i].ty # "Micro"
    THEN [err |-> "InconsistentState", accounts |-> accounts, cache |-> cache]
    ELSE LET prev == IF i = 1 THEN state.macro_info.head ELSE blocks[i - 1]
             r == revert_accounts(accounts, rcpts, blocks[i], prev.view_number)
         IN IF r.panic \/ prev.state_root # accounts_hash(r.accounts)
            THEN [err |-> "Panic", accounts |-> accounts, cache |-> cache]
            ELSE RevertBatch(blocks, i - 1, rcpts, r.accounts,
                             cache_revert_block(cache, blocks[i]))

\* The check of the macro body of an isolated macro block.
IsolatedBodyCheck(block) ==
    IF is_election_block(block) /\ next_slots(block) # block.validators
    THEN "InvalidValidators"
    ELSE IF block.body_root # "OfBody" THEN "BodyHashMismatch"
    ELSE "Ok"

\* The two records extend_isolated_macro writes: the new block, and the
\* record of the parent election block under the new block's parent hash.
IsolatedStore(store, block_hash, chain_info, prev_info) ==
    put_chain_info(
        put_chain_info(store, block_hash,
                       [chain_info EXCEPT !.on_main_chain = TRUE]),
        chain_info.head.parent_hash,
        [prev_info EXCEPT !.main_chain_successor = Hash(chain_info.head)])

extend_isolated_macro(block_hash, transactions, chain_info, prev_info) ==
    LET blocks_to_revert == get_blocks_forward(chain_store, state.macro_head_hash,
                                               EPOCH_LENGTH - 1)
        r == RevertBatch(blocks_to_revert, Len(blocks_to_revert), receipts,
                         state.accounts, state.transaction_cache)
        block == chain_info.head
        committed == accounts_commit(r.accounts,
                                     AccountsEntry(block.block_number, transactions, 0))
        body == IsolatedBodyCheck(block)
        info == [chain_info EXCEPT !.on_main_chain = TRUE]
        st1 == MacroStateUpdate([state EXCEPT !.accounts = committed,
                                              !.transaction_cache = r.cache],
                                block_hash, info)
        st2 == [st1 EXCEPT !.main_chain = info, !.head_hash = block_hash]
    IN IF r.err # "Ok" THEN Unchanged(r.err)
       ELSE IF body # "Ok" THEN Unchanged(body)
       ELSE Outcome("Extended",
                    IsolatedStore(chain_store, block_hash, chain_info, prev_info),
                    {}, st2, <<ExtendedEvent(block_hash, block)>>)

\* The block number rule of push_isolated_macro_block: only an election
\* block is compared with the election block after its predecessor.
IsolatedNumberCheck(block, prev_info) ==
    is_election_block(block)
        /\ election_block_after(prev_info.head.block_number) # block.block_number

push_isolated_macro_block(block, transactions) ==
    LET prev_info == get_chain_info(chain_store, block.parent_election_hash)
    IN IF block.ty # "Macro" THEN Unchanged("InvalidSuccessor")
       ELSE IF is_election_block_at(block.block_number) # is_election_block(block)
       THEN Unchanged("InvalidSuccessor")
       ELSE IF Hash(block) \in DOMAIN chain_store THEN Unchanged("Known")
       ELSE IF is_election_block(block)
               /\ state.election_head_hash # block.parent_election_hash
       THEN Unchanged("Orphan")
       ELSE IF ~BlockVerify(block) THEN Unchanged("InvalidBlock")
       ELSE IF prev_info = None THEN Unchanged("Orphan")
       ELSE IF IsolatedNumberCheck(block, prev_info) THEN Unchanged("InvalidSuccessor")
       ELSE IF block.history_root # compute_root_from_hashes(transactions)
       THEN Unchanged("InvalidHistoryRoot")
       ELSE IF block.justification # "Valid" THEN Unchanged("NoJustification")
       ELSE IF block.body_root # "OfBody" THEN Unchanged("BodyHashMismatch")
       ELSE extend_isolated_macro(Hash(block), transactions, NewChainInfo(block),
                                  prev_info)

----------------------------------------------------------------------------
(* The blocks handed to the chain manager                                  *)

WrongRoot == {AccountsEntry(0 - 1, {}, 0)}

TxChoices == {{}} \cup {{t} : t \in Txs}

\* A well-formed successor of the stored record prev_hash.
SuccessorBlock(prev_hash, view_number, transactions) ==
    LET prev == chain_store[prev_hash].head
        number == prev.block_number + 1
        ty == get_next_block_type(prev.block_number)
        txs == IF ty = "Micro" THEN transactions ELSE {}
    IN [ty |-> ty, block_number |-> number, view_number |-> view_number,
        timestamp |-> prev.timestamp + 1, parent_hash |-> prev_hash,
        state_root |-> accounts_commit(prev.state_root,
                           AccountsEntry(number, txs,
                               ViewChangeSlashes(next_view_number(prev), view_number))),
        seed |-> "Valid", body_root |-> "OfBody", transactions |-> txs,
        parent_election_hash |-> IF ty = "Macro" THEN state.election_head_hash ELSE NoHash,
        validators |-> IF ty = "Macro" /\ is_election_block_at(number)
                       THEN Validators(number) ELSE NoValidators,
        history_root |-> {}, body_sets |-> "Computed",
        justification |-> "Valid",
        view_change_proof |-> IF ty = "Micro" /\ view_number > next_view_number(prev)
                              THEN "Valid" ELSE "None"]

\* The block and the blocks that differ from it in one field.
CommonVariants(b) ==
    {b,
     [b EXCEPT !.timestamp = b.timestamp - 1],
     [b EXCEPT !.timestamp = Now + TIMESTAMP_MAX_DRIFT + 1],
     [b EXCEPT !.block_number = b.block_number + 1],
     [b EXCEPT !.block_number = b.block_number - 1],
     [b EXCEPT !.seed = "Invalid"],
     [b EXCEPT !.justification = "Invalid"],
     [b EXCEPT !.state_root = WrongRoot],
     [b EXCEPT !.body_root = "Other"]}

MicroVariants(b) ==
    {[b EXCEPT !.view_change_proof = p] : p \in {"None", "Valid", "Invalid"}}

MacroVariants(b) ==
    {[b EXCEPT !.justification = "None"],
     [b EXCEPT !.body_sets = "Other"],
     [b EXCEPT !.validators = IF b.validators = NoValidators
                              THEN Validators(b.block_number) ELSE NoValidators],
     [b EXCEPT !.validators = WrongValidators],
     [b EXCEPT !.parent_election_hash = UnknownHash]}

Variants(b) ==
    CommonVariants(b) \cup (IF b.ty = "Micro" THEN MicroVariants(b) ELSE MacroVariants(b))

\* Records off the main chain.
ForkRecords ==
    {h \in DOMAIN chain_store : ~chain_store[h].on_main_chain}

\* Records a new block may build on.
Parents ==
    {h \in DOMAIN chain_store :
        /\ chain_store[h].head.block_number < MaxHeight
        /\ Cardinality(DOMAIN chain_store) <= MaxBlocks
        /\ h = state.head_hash \/ Cardinality(ForkRecords) < MaxForks}

OrphanBlock ==
    [GenesisBlock EXCEPT !.ty = "Micro", !.block_number = 1, !.timestamp = 1,
                         !.parent_hash = UnknownHash, !.validators = NoValidators,
                         !.justification = "Valid"]

PushInputs ==
    {OrphanBlock}
    \cup {SuccessorBlock(p, v, txs) :
             p \in Parents, v \in 0..MaxView, txs \in TxChoices}
    \cup UNION {Variants(SuccessorBlock(p, v, {})) :
                   p \in Parents, v \in 0..MaxView}

\* A macro block for push_isolated_macro_block; its transaction list is the
\* one its history root commits to.
IsolatedBlock(number, parent_hash, parent_election_hash, transactions) ==
    [ty |-> "Macro", block_number |-> number, view_number |-> 0,
     timestamp |-> number, parent_hash |-> parent_hash,
     state_root |-> accounts_commit(state.macro_info.head.state_root,
                                    AccountsEntry(number, transactions, 0)),
     seed |-> "Valid", body_root |-> "OfBody", transactions |-> {},
     parent_election_hash |-> parent_election_hash,
     validators |-> IF is_election_block_at(number)
                    THEN Validators(number) ELSE NoValidators,
     history_root |-> compute_root_from_hashes(transactions),
     body_sets |-> "Computed", justification |-> "Valid",
     view_change_proof |-> "None"]

IsolatedTransactions(block) == block.history_root \cap Txs

\* The block and the blocks that differ from it in one field; the state
\* root of the chain the block comes from need not be the one the local
\* commit of its transaction list produces.
IsolatedVariants(b) ==
    {b,
     [b EXCEPT !.ty = "Micro"],
     [b EXCEPT !.justification = "Invalid"],
     [b EXCEPT !.justification = "None"],
     [b EXCEPT !.state_root = WrongRoot],
     [b EXCEPT !.body_root = "Other"],
     [b EXCEPT !.history_root = {0}],
     [b EXCEPT !.validators = IF b.validators = NoValidators
                              THEN Validators(b.block_number) ELSE NoValidators],
     [b EXCEPT !.validators = WrongValidators],
     [b EXCEPT !.parent_election_hash = UnknownHash]}

\* The macro heights a syncing node may be handed a block of, in any order.
IsolatedNumbers == {n \in 1..MaxHeight : is_macro_block_at(n)}

\* The micro block before the macro block is unknown, or it is the head.
IsolatedParents(n) ==
    {UnknownHash} \cup {h \in {state.head_hash} :
                           state.main_chain.head.block_number = n - 1}

\* The election block of the epoch before the height, if it is stored.
ElectionParent(n) ==
    LET info == get_chain_info_at(chain_store, election_block_before(n))
    IN IF info = None THEN UnknownHash ELSE Hash(info.head)

IsolatedInputs ==
    UNION {{IsolatedBlock(n, p, ElectionParent(n), txs) :
               p \in IsolatedParents(n), txs \in TxChoices} : n \in IsolatedNumbers}
    \cup UNION {IsolatedVariants(IsolatedBlock(n, UnknownHash, ElectionParent(n), {})) :
                   n \in IsolatedNumbers}

----------------------------------------------------------------------------
(* The state machine                                                       *)

GenesisInfo == ChainInfo(GenesisBlock, TRUE, NoHash)

\* The calling threads; a thread outside push is Idle.
Threads == 1..NumThreads
NoThread == 0
Idle == [pc |-> "idle"]

\* No function call is under way.
NoQuery == [fn |-> "none"]

\* Blockchain::init: the genesis block, an empty transaction cache.
Init ==
    /\ chain_store = [h \in {GenesisHash} |-> GenesisInfo]
    /\ receipts = {}
    /\ state = [accounts |-> {},
                transaction_cache |-> <<>>,
                main_chain |-> GenesisInfo,
                head_hash |-> GenesisHash,
                macro_info |-> GenesisInfo,
                macro_head_hash |-> GenesisHash,
                election_head |-> GenesisBlock,
                election_head_hash |-> GenesisHash,
                current_slots |-> slots_from_block(GenesisBlock),
                previous_slots |-> DefaultSlots]
    /\ isolated = 0
    /\ threads = [t \in Threads |-> Idle]
    /\ push_lock = NoThread
    /\ state_lock = NoThread
    /\ admissions = <<>>
    /\ delivered = <<>>
    /\ calls = 0
    /\ query = NoQuery

Apply(o) ==
    /\ chain_store' = o.store
    /\ receipts' = o.receipts
    /\ state' = o.state

Push ==
    /\ \E block \in PushInputs :
          /\ Apply(push_block(block))
          /\ UNCHANGED isolated
    /\ UNCHANGED <<lockVars, query>>

PushIsolatedMacroBlock ==
    /\ isolated < MaxIsolated
    /\ ForkRecords = {}
    /\ \E block \in IsolatedInputs :
          LET o == push_isolated_macro_block(block, IsolatedTransactions(block))
          IN /\ Apply(o)
             /\ isolated' = IF o.result = "Extended" THEN isolated + 1 ELSE isolated
    /\ UNCHANGED <<lockVars, query>>

Next == Push \/ PushIsolatedMacroBlock

Spec == Init /\ [][Next]_vars

----------------------------------------------------------------------------
(* The calls as concurrent threads run them: the push mutex, the write     *)
(* lock of the in-memory state, the commit of the write transaction and    *)
(* the notification are steps of their own                                 *)

\* A lock that never blocks.
PushLockAlwaysFree(lock) == TRUE

\* Mutex::lock returns when no thread holds the push mutex.
PushLockFree(lock) == lock = NoThread

\* The call writes the in-memory state and notifies a BlockchainEvent.
Admits(o) == o.result \in {"Extended", "Rebranched"}

\* The call of a thread, once it holds the push mutex.  No other thread
\* writes the store or the state before the mutex is released, so the
\* outcome of the call is the one its checks compute here.
Call(kind, o) == [pc |-> "locked", kind |-> kind, o |-> o]

\* push_block: take the push mutex.
Lock(t) ==
    /\ threads[t].pc = "idle"
    /\ calls < MaxCalls
    /\ PushLockFree(push_lock)
    /\ \E block \in PushInputs :
          threads' = [threads EXCEPT ![t] = Call("push", push_block(block))]
    /\ push_lock' = t
    /\ calls' = calls + 1
    /\ UNCHANGED <<query, chainVars, state_lock, admissions, delivered>>

\* push_isolated_macro_block: take the push mutex.
LockIsolated(t) ==
    /\ threads[t].pc = "idle"
    /\ calls < MaxCalls
    /\ isolated < MaxIsolated
    /\ ForkRecords = {}
    /\ PushLockFree(push_lock)
    /\ \E block \in IsolatedInputs :
          threads' = [threads EXCEPT ![t] =
              Call("isolated",
                   push_isolated_macro_block(block, IsolatedTransactions(block)))]
    /\ push_lock' = t
    /\ calls' = calls + 1
    /\ UNCHANGED <<query, chainVars, state_lock, admissions, delivered>>

\* A call that admits nothing to the main chain returns: the store write of
\* a Forked block or of a failed rebranch is committed, the guard of the
\* push mutex is dropped.
Return(t) ==
    /\ threads[t].pc = "locked"
    /\ ~Admits(threads[t].o)
    /\ chain_store' = threads[t].o.store
    /\ threads' = [threads EXCEPT ![t] = Idle]
    /\ push_lock' = NoThread
    /\ UNCHANGED <<query, receipts, state, isolated, state_lock, admissions, delivered, calls>>

\* The first in-memory writes under the write lock: extend pushes the block
\* to the transaction cache; extend and extend_isolated_macro set the macro
\* head, the election head and the slots.
MacroWritten(st, call) ==
    [st EXCEPT !.transaction_cache =
                   IF call.kind = "push" /\ call.o.result = "Extended"
                   THEN call.o.state.transaction_cache ELSE @,
               !.macro_info = call.o.state.macro_info,
               !.macro_head_hash = call.o.state.macro_head_hash,
               !.election_head = call.o.state.election_head,
               !.election_head_hash = call.o.state.election_head_hash,
               !.previous_slots = call.o.state.previous_slots,
               !.current_slots = call.o.state.current_slots]

\* The last in-memory writes: the main chain and the head hash; rebranch
\* and extend_isolated_macro install their copy of the transaction cache.
HeadWritten(st, call) ==
    [st EXCEPT !.transaction_cache = call.o.state.transaction_cache,
               !.main_chain = call.o.state.main_chain,
               !.head_hash = call.o.state.head_hash]

\* self.state.write() and the writes up to the head.
WriteMacro(t) ==
    /\ threads[t].pc = "locked"
    /\ Admits(threads[t].o)
    /\ state_lock = NoThread
    /\ state_lock' = t
    /\ state' = MacroWritten(state, threads[t])
    /\ threads' = [threads EXCEPT ![t].pc = "macro"]
    /\ UNCHANGED <<query, chain_store, receipts, isolated, push_lock, admissions, delivered, calls>>

WriteHead(t) ==
    /\ threads[t].pc = "macro"
    /\ state' = HeadWritten(state, threads[t])
    /\ threads' = [threads EXCEPT ![t].pc = "head"]
    /\ UNCHANGED <<query, chain_store, receipts, isolated, push_lock, state_lock,
                   admissions, delivered, calls>>

\* txn.commit(): the store, the receipts and the accounts tree of the write
\* transaction become visible.
Commit(t) ==
    /\ threads[t].pc = "head"
    /\ chain_store' = threads[t].o.store
    /\ receipts' = threads[t].o.receipts
    /\ state' = [state EXCEPT !.accounts = threads[t].o.state.accounts]
    /\ isolated' = IF threads[t].kind = "isolated" THEN isolated + 1 ELSE isolated
    /\ admissions' = Append(admissions, threads[t].o.events[1])
    /\ threads' = [threads EXCEPT ![t].pc = "committed"]
    /\ UNCHANGED <<query, push_lock, state_lock, delivered, calls>>

\* drop(state): the write lock is given up before notifying.
Unlock(t) ==
    /\ threads[t].pc = "committed"
    /\ state_lock' = NoThread
    /\ threads' = [threads EXCEPT ![t].pc = "unlocked"]
    /\ UNCHANGED <<query, chainVars, push_lock, admissions, delivered, calls>>

\* extend and rebranch notify while push_block holds the push mutex.
Notify(t) ==
    /\ threads[t].pc = "unlocked"
    /\ threads[t].kind = "push"
    /\ delivered' = Append(delivered, threads[t].o.events[1])
    /\ threads' = [threads EXCEPT ![t].pc = "notified"]
    /\ UNCHANGED <<query, chainVars, push_lock, state_lock, admissions, calls>>

\* push_block returns: the guard of the push mutex is dropped.
ReturnOk(t) ==
    /\ threads[t].pc = "notified"
    /\ push_lock' = NoThread
    /\ threads' = [threads EXCEPT ![t] = Idle]
    /\ UNCHANGED <<query, chainVars, state_lock, admissions, delivered, calls>>

\* extend_isolated_macro: drop(push_lock) before the notification.
DropPushLock(t) ==
    /\ threads[t].pc = "unlocked"
    /\ threads[t].kind = "isolated"
    /\ push_lock' = NoThread
    /\ threads' = [threads EXCEPT ![t].pc = "released"]
    /\ UNCHANGED <<query, chainVars, state_lock, admissions, delivered, calls>>

\* extend_isolated_macro notifies and returns.
NotifyIsolated(t) ==
    /\ threads[t].pc = "released"
    /\ delivered' = Append(delivered, threads[t].o.events[1])
    /\ threads' = [threads EXCEPT ![t] = Idle]
    /\ UNCHANGED <<query, chainVars, push_lock, state_lock, admissions, calls>>

NextThreads ==
    \E t \in Threads :
        \/ Lock(t)
        \/ LockIsolated(t)
        \/ Return(t)
        \/ WriteMacro(t)
        \/ WriteHead(t)
        \/ Commit(t)
        \/ Unlock(t)
        \/ Notify(t)
        \/ ReturnOk(t)
        \/ DropPushLock(t)
        \/ NotifyIsolated(t)

SpecThreads == Init /\ [][NextThreads]_vars

----------------------------------------------------------------------------
(* Functions of the chain manager that are called on their own: each step  *)
(* is one call on the initial chain with arguments of a bounded set; query *)
(* holds the arguments and the result                                      *)

RECURSIVE SumSeq(_, _)
SumSeq(seq, i) == IF i > Len(seq) THEN 0 ELSE seq[i] + SumSeq(seq, i + 1)

\* The elements of a set of numbers in ascending order (BitSet::iter).
RECURSIVE Ascending(_)
Ascending(set) ==
    IF set = {} THEN <<>>
    ELSE LET least == CHOOSE x \in set : \A y \in set : x <= y
         IN <<least>> \o Ascending(set \ {least})

\* The slot bands of the validators: the numbers of slots of up to
\* MaxValidators validators, SLOTS slots together.
SlotBands ==
    {bands \in UNION {[1..n -> 1..SLOTS] : n \in 1..MaxValidators} :
        SumSeq(bands, 1) = SLOTS}

\* The while-let loop over the peeked slashed slot (2226-2236): the
\* iterator is peeked and never advanced.
RECURSIVE CountSlashed(_, _, _, _, _)
CountSlashed(slashed_set_iter, first_slot_number, last_slot_number, num_eligible_slots, num_slashed_slots) ==
    IF slashed_set_iter = <<>>
    THEN [panic |-> FALSE, num_eligible_slots |-> num_eligible_slots,
          num_slashed_slots |-> num_slashed_slots]
    ELSE IF slashed_set_iter[1] < first_slot_number
    THEN [panic |-> TRUE, num_eligible_slots |-> num_eligible_slots,
          num_slashed_slots |-> num_slashed_slots]
    ELSE IF slashed_set_iter[1] < last_slot_number
    THEN IF num_eligible_slots = 0
         THEN [panic |-> TRUE, num_eligible_slots |-> num_eligible_slots,
               num_slashed_slots |-> num_slashed_slots]
         ELSE CountSlashed(slashed_set_iter, first_slot_number, last_slot_number,
                           num_eligible_slots - 1, num_slashed_slots + 1)
    ELSE [panic |-> FALSE, num_eligible_slots |-> num_eligible_slots,
          num_slashed_slots |-> num_slashed_slots]

\* Address::burn_address() and the reward address of a validator.
BurnAddress == [burn |-> TRUE]
RewardAddress(validator) == [validator |-> validator]

RewardInherent(target, value) == [ty |-> "Reward", target |-> target, value |-> value]

\* The loop over the validator slots (2216-2276).
RECURSIVE RewardLoop(_, _, _, _, _, _, _, _)
RewardLoop(validator_slots, accepts, i, first_slot_number, slashed_set_iter, slot_reward, inherents, burned_reward) ==
    IF i > Len(validator_slots)
    THEN [panic |-> FALSE, inherents |-> inherents, burned_reward |-> burned_reward]
    ELSE LET last_slot_number == first_slot_number + validator_slots[i]
             c == CountSlashed(slashed_set_iter, first_slot_number, last_slot_number,
                               validator_slots[i], 0)
             reward == slot_reward * c.num_eligible_slots
             burned == burned_reward + slot_reward * c.num_slashed_slots
         IN IF c.panic
            THEN [panic |-> TRUE, inherents |-> inherents, burned_reward |-> burned_reward]
            ELSE IF accepts[i]
            THEN RewardLoop(validator_slots, accepts, i + 1, last_slot_number,
                            slashed_set_iter, slot_reward,
                            Append(inherents, RewardInherent(RewardAddress(i), reward)), burned)
            ELSE RewardLoop(validator_slots, accepts, i + 1, last_slot_number,
                            slashed_set_iter, slot_reward, inherents, burned + reward)

Panicked == [panic |-> TRUE, inherents |-> <<>>]

\* finalize_previous_epoch: accepts tells which validators' accounts take
\* the reward, sample is the index the alias method draws.
finalize_previous_epoch(epoch, validator_slots, accepts, slashed_set, block_reward, tx_fees, sample) ==
    LET reward_pot == block_reward + tx_fees
        slot_reward == reward_pot \div SLOTS
        remainder == reward_pot % SLOTS
        l == RewardLoop(validator_slots, accepts, 1, 0, Ascending(slashed_set),
                        slot_reward, <<>>, 0)
        rewarded == [l.inherents EXCEPT ![sample].value = @ + remainder]
    IN IF epoch = 0 THEN [panic |-> FALSE, inherents |-> <<>>]
       ELSE IF l.panic THEN Panicked
       ELSE IF sample \notin 1..Len(l.inherents) THEN Panicked
       ELSE [panic |-> FALSE,
             inherents |-> rewarded \o <<RewardInherent(BurnAddress, l.burned_reward),
                                         [ty |-> "FinalizeBatch",
                                          target |-> [validator_registry |-> TRUE],
                                          value |-> 0]>>]

\* The indices the alias method can draw among the accepted inherents; with
\* none accepted the draw cannot succeed.
Samples(accepts) ==
    LET n == Cardinality({i \in DOMAIN accepts : accepts[i]})
    IN IF n = 0 THEN {0} ELSE 1..n

FinalizePreviousEpoch ==
    /\ query = NoQuery
    /\ \E epoch \in 0..1, validator_slots \in SlotBands, slashed_set \in SUBSET (0..SLOTS - 1),
          block_reward \in 0..MaxReward, tx_fees \in 0..MaxFees :
          \E accepts \in [DOMAIN validator_slots -> BOOLEAN] :
             \E sample \in Samples(accepts) :
                query' = [fn |-> "finalize_previous_epoch",
                          epoch |-> epoch,
                          validator_slots |-> validator_slots,
                          accepts |-> accepts,
                          slashed_set |-> slashed_set,
                          block_reward |-> block_reward,
                          tx_fees |-> tx_fees,
                          result |-> finalize_previous_epoch(
                                         epoch, validator_slots, accepts, slashed_set,
                                         block_reward, tx_fees, sample)]
    /\ UNCHANGED <<chainVars, lockVars>>

\* The slot Blockchain::get_slot_at yields for a block number and a view
\* number: the owner picked for that view at that height.
SlotOwner(block_number, view_number) ==
    IF get_slot_at(chain_store, state, block_number) = None THEN None
    ELSE [block_number |-> block_number, view_number |-> view_number]

SlashInherent(slot, event_block) ==
    [ty |-> "Slash", target |-> [validator_registry |-> TRUE], value |-> 0,
     data |-> [slot |-> slot, event_block |-> event_block]]

\* The views first_view_number ..= last_view_number.
ViewRangeInclusive(first_view_number, last_view_number) ==
    [i \in 1..(IF last_view_number >= first_view_number
               THEN last_view_number - first_view_number + 1 ELSE 0) |->
        first_view_number + i - 1]

\* The views first_view_number .. last_view_number, the last one excluded.
ViewRange(first_view_number, last_view_number) ==
    [i \in 1..(IF last_view_number > first_view_number
               THEN last_view_number - first_view_number ELSE 0) |->
        first_view_number + i - 1]

\* inherent_from_fork_proof: None stands for the panic of the unwrap.
inherent_from_fork_proof(fork_proof) ==
    LET slot == SlotOwner(fork_proof.header1.block_number, fork_proof.header1.view_number)
    IN IF slot = None THEN None
       ELSE SlashInherent(slot, fork_proof.header1.block_number)

inherents_from_view_changes(view_changes) ==
    LET views == ViewRange(view_changes.first_view_number, view_changes.last_view_number)
    IN [i \in DOMAIN views |->
           LET slot == SlotOwner(view_changes.block_number, views[i])
           IN IF slot = None THEN None
              ELSE SlashInherent(slot, view_changes.block_number)]

create_slash_inherents(fork_proofs, view_changes) ==
    LET inherents == [i \in DOMAIN fork_proofs |-> inherent_from_fork_proof(fork_proofs[i])]
                     \o (IF view_changes = None THEN <<>>
                         ELSE inherents_from_view_changes(view_changes))
    IN IF \E i \in DOMAIN inherents : inherents[i] = None THEN Panicked
       ELSE [panic |-> FALSE, inherents |-> inherents]

\* Fork proofs by the block number and view number of their first header,
\* and the view changes of a block.
ForkProofs ==
    {[header1 |-> [block_number |-> n, view_number |-> v]] : n \in 1..2, v \in 0..MaxView}

ViewChangesInputs ==
    {[block_number |-> n, first_view_number |-> f, last_view_number |-> l] :
        n \in 1..2, f \in 0..MaxView + 1, l \in 0..MaxView + 1}

CreateSlashInherents ==
    /\ query = NoQuery
    /\ \E fork_proofs \in UNION {[1..n -> ForkProofs] : n \in 0..MaxProofs},
          view_changes \in {None} \cup ViewChangesInputs :
          query' = [fn |-> "create_slash_inherents",
                    fork_proofs |-> fork_proofs,
                    view_changes |-> view_changes,
                    result |-> create_slash_inherents(fork_proofs, view_changes)]
    /\ UNCHANGED <<chainVars, lockVars>>

\* The hash under which the main-chain block of a height is stored, None
\* without such a block (ChainStore::get_block_at and the hash of its block).
get_hash_at(store, height) ==
    LET at == {h \in DOMAIN store :
                  store[h].head.block_number = height /\ store[h].on_main_chain}
    IN IF at = {} THEN None ELSE CHOOSE h \in at : TRUE

\* The loop over the top hashes: each round pushes the parent hash of the
\* block of the last hash, until a hash without a block.
RECURSIVE TopHashes(_, _, _, _)
TopHashes(store, hash, rounds, locators) ==
    IF rounds = 0 \/ hash \notin DOMAIN store THEN locators
    ELSE TopHashes(store, store[hash].head.parent_hash, rounds - 1,
                   Append(locators, store[hash].head.parent_hash))

\* The loop with the doubling step of get_block_locators.
RECURSIVE SteppedHashes(_, _, _, _, _)
SteppedHashes(store, height, step, locators, max_count) ==
    LET hash == get_hash_at(store, height)
        pushed == Append(locators, hash)
    IN IF hash = None THEN locators
       ELSE IF Len(pushed) >= max_count THEN pushed
       ELSE IF height - 2 * step <= 0 THEN pushed
       ELSE SteppedHashes(store, height - 2 * step, 2 * step, pushed, max_count)

\* The genesis hash pushed last, in the place of the last hash when the
\* list is full.
WithGenesis(locators, max_count) ==
    IF locators = <<>> \/ locators[Len(locators)] # GenesisHash
    THEN Append(IF Len(locators) >= max_count
                THEN SubSeq(locators, 1, Len(locators) - 1) ELSE locators,
                GenesisHash)
    ELSE locators

SaturatingSub(a, b) == IF a > b THEN a - b ELSE 0

get_block_locators(store, st, max_count) ==
    LET height == st.main_chain.head.block_number
        top == TopHashes(store, st.head_hash, Min(10, height), <<st.head_hash>>)
    IN WithGenesis(SteppedHashes(store, SaturatingSub(height, 10 + 2), 2, top, max_count),
                   max_count)

\* The loop over the top hashes of get_macro_locators: ten rounds, each
\* pushes the parent (or parent election) hash of the macro block of the last
\* hash; a block that is not a macro block is the unreachable!() panic.
RECURSIVE TopMacroHashes(_, _, _, _, _)
TopMacroHashes(store, hash, rounds, locators, election_blocks_only) ==
    IF rounds = 0 \/ hash \notin DOMAIN store
    THEN [panic |-> FALSE, locators |-> locators]
    ELSE IF store[hash].head.ty # "Macro"
    THEN [panic |-> TRUE, locators |-> locators]
    ELSE LET next == IF election_blocks_only
                     THEN store[hash].head.parent_election_hash
                     ELSE store[hash].head.parent_hash
         IN TopMacroHashes(store, next, rounds - 1, Append(locators, next),
                           election_blocks_only)

\* The loop with the doubling step of get_macro_locators, in units of
\* batches or epochs; a block that is not a macro block fails the assert.
RECURSIVE SteppedMacroHashes(_, _, _, _, _, _)
SteppedMacroHashes(store, height, step, locators, max_count, length) ==
    LET hash == get_hash_at(store, height)
        pushed == Append(locators, hash)
        next == SaturatingSub(height, 2 * step * length)
    IN IF hash = None THEN [panic |-> FALSE, locators |-> locators]
       ELSE IF store[hash].head.ty # "Macro" THEN [panic |-> TRUE, locators |-> locators]
       ELSE IF Len(pushed) >= max_count \/ next = 0
       THEN [panic |-> FALSE, locators |-> pushed]
       ELSE SteppedMacroHashes(store, next, 2 * step, pushed, max_count, length)

get_macro_locators(store, st, max_count, election_blocks_only) ==
    LET hash == IF election_blocks_only THEN st.election_head_hash ELSE st.macro_head_hash
        length == IF election_blocks_only THEN EPOCH_LENGTH ELSE BATCH_LENGTH
        last == IF election_blocks_only
                THEN last_election_block(st.main_chain.head.block_number)
                ELSE last_macro_block(st.main_chain.head.block_number)
        top == TopMacroHashes(store, hash, 10, <<hash>>, election_blocks_only)
        stepped == SteppedMacroHashes(store, SaturatingSub(last, (10 + 2) * length), 2,
                                      top.locators, max_count, length)
    IN IF top.panic \/ stepped.panic THEN [panic |-> TRUE, locators |-> <<>>]
       ELSE [panic |-> FALSE, locators |-> WithGenesis(stepped.locators, max_count)]

\* A main chain of a height: the block of height n is stored under the
\* hash LinearHash(n), the genesis block under the genesis hash.
LinearHash(n) == IF n = 0 THEN GenesisHash ELSE [height |-> n]

LinearStore(height) ==
    [h \in {LinearHash(n) : n \in 0..height} |->
        LET n == CHOOSE k \in 0..height : LinearHash(k) = h
        IN [head |-> [ty |-> IF is_macro_block_at(n) THEN "Macro" ELSE "Micro",
                      block_number |-> n,
                      parent_hash |-> IF n = 0 THEN NoHash ELSE LinearHash(n - 1)],
            on_main_chain |-> TRUE,
            main_chain_successor |-> IF n = height THEN NoHash ELSE LinearHash(n + 1)]]

LinearState(height) ==
    [main_chain |-> LinearStore(height)[LinearHash(height)],
     head_hash |-> LinearHash(height)]

GetBlockLocators ==
    /\ query = NoQuery
    /\ \E height \in 0..MaxChain, max_count \in 1..MaxCount :
          query' = [fn |-> "get_block_locators",
                    height |-> height,
                    max_count |-> max_count,
                    result |-> get_block_locators(LinearStore(height), LinearState(height),
                                                  max_count)]
    /\ UNCHANGED <<chainVars, lockVars>>

----------------------------------------------------------------------------
(* Block producer                                                          *)

\* next_micro_block with the default BlockConfig: no transactions, no fork
\* proofs, the next view number of the head, a signed seed and header.
next_micro_block(st) ==
    LET head == st.main_chain.head
        block_number == head.block_number + 1
        timestamp == head.timestamp + 1
        view_number == next_view_number(head)
        inherents == ViewChangeSlashes(next_view_number(head), view_number)
    IN [ty |-> "Micro", block_number |-> block_number, view_number |-> view_number,
        timestamp |-> timestamp, parent_hash |-> st.head_hash,
        state_root |-> accounts_hash(accounts_commit(st.accounts,
                           AccountsEntry(block_number, {}, inherents))),
        seed |-> "Valid", body_root |-> "OfBody", transactions |-> {},
        parent_election_hash |-> NoHash, validators |-> NoValidators,
        history_root |-> {}, body_sets |-> "Computed",
        justification |-> "Valid", view_change_proof |-> "None"]

\* next_macro_block_proposal with the default BlockConfig: the header takes
\* the timestamp of the head; the body carries the next validators at an
\* election height; there is no justification yet.
next_macro_block_proposal(st) ==
    LET head == st.main_chain.head
        block_number == head.block_number + 1
        timestamp == head.timestamp
    IN [ty |-> "Macro", block_number |-> block_number, view_number |-> 0,
        timestamp |-> timestamp, parent_hash |-> st.head_hash,
        state_root |-> accounts_hash(accounts_commit(st.accounts,
                           AccountsEntry(block_number, {}, 0))),
        seed |-> "Valid", body_root |-> "OfBody", transactions |-> {},
        parent_election_hash |-> st.election_head_hash,
        validators |-> IF is_election_block_at(head.block_number + 1)
                       THEN Validators(block_number) ELSE NoValidators,
        history_root |-> {}, body_sets |-> "Computed",
        justification |-> "None", view_change_proof |-> "None"]

\* The pre-commit vote of a proposal for the hash to commit.
TendermintVote(proposal, block_hash) ==
    [proposal_hash |-> block_hash,
     id |-> [block_number |-> proposal.value.block_number,
             step |-> "PreCommit",
             round_number |-> proposal.round]]

\* finalize_macro_block: the vote signed by every slot, wrapped as a proof.
finalize_macro_block(proposal, body, block_hash, missing_body) ==
    LET vote == TendermintVote(proposal, block_hash)
        signers == 0..(SLOTS - 1)
    IN [header |-> proposal.value,
        justification |-> [round |-> 0,
                           sig |-> [signed |-> vote, signers |-> signers]],
        body |-> IF missing_body THEN None ELSE body]

\* The body fields of a block of the model.
BodyFields == {"transactions", "validators", "body_sets"}

\* MacroBlock::nano_zkp_hash of a proposal.
nano_zkp_hash(block) == [zkp |-> Hash(block)]

\* next_macro_block: the proposal on the head, finalized in the round of
\* the configuration (0 by default).
next_macro_block(st, tendermint_round) ==
    LET macro_block_proposal == next_macro_block_proposal(st)
    IN finalize_macro_block([valid_round |-> None,
                             value |-> Hash(macro_block_proposal),
                             round |-> tendermint_round],
                            [f \in BodyFields |-> macro_block_proposal[f]],
                            nano_zkp_hash(macro_block_proposal), FALSE)

\* The proof verifies against the pre-commit vote of its own round for the
\* block, signed by two thirds of the slots.
ProofVerifies(macro_block) ==
    LET proof == macro_block.justification
    IN /\ proof.sig.signed = TendermintVote([value |-> macro_block.header,
                                             round |-> proof.round],
                                            nano_zkp_hash(macro_block.header))
       /\ 3 * Cardinality(proof.sig.signers) >= 2 * SLOTS

\* The finalized macro block as it is handed to push.
ProducedBlock(macro_block) ==
    [f \in HeaderFields \cup {"justification", "view_change_proof"} |->
        CASE f = "justification" ->
                 IF ProofVerifies(macro_block) THEN "Valid" ELSE "Invalid"
          [] f = "view_change_proof" -> "None"
          [] f \in BodyFields /\ macro_block.body # None -> macro_block.body[f]
          [] OTHER -> macro_block.header[f]]

\* The proposals handed to finalize_macro_block: a header of a macro
\* height, a round, a body.
Proposals ==
    {[valid_round |-> None,
      value |-> Hash([GenesisBlock EXCEPT !.block_number = n, !.timestamp = t,
                                          !.parent_hash = UnknownHash,
                                          !.validators =
                                              IF is_election_block_at(n)
                                              THEN Validators(n) ELSE NoValidators]),
      round |-> r] :
        n \in {h \in 1..MaxHeight : is_macro_block_at(h)},
        t \in 1..MaxHeight, r \in 0..MaxRound}

FinalizeMacroBlock ==
    /\ query = NoQuery
    /\ \E proposal \in Proposals, missing_body \in BOOLEAN :
          query' = [fn |-> "finalize_macro_block",
                    proposal |-> proposal,
                    block_hash |-> nano_zkp_hash(proposal.value),
                    result |-> finalize_macro_block(
                                   proposal,
                                   [f \in BodyFields |-> proposal.value[f]],
                                   nano_zkp_hash(proposal.value), missing_body)]
    /\ UNCHANGED <<chainVars, lockVars>>

\* The predecessors the header checks are run against: the genesis block
\* and the micro blocks of the first batch, produced in view 1.
HeaderStore ==
    [h \in {LinearHash(n) : n \in 0..(BATCH_LENGTH - 1)} |->
        LET n == CHOOSE k \in 0..(BATCH_LENGTH - 1) : LinearHash(k) = h
        IN IF n = 0 THEN GenesisInfo
           ELSE ChainInfo([GenesisBlock EXCEPT !.ty = "Micro", !.block_number = n,
                                               !.view_number = 1, !.timestamp = n,
                                               !.parent_hash = LinearHash(n - 1),
                                               !.validators = NoValidators],
                          TRUE, NoHash)]

\* The headers handed to verify_block_header, right or wrong in any
\* combination of their fields.
Headers ==
    {[GenesisBlock EXCEPT !.ty = ty, !.block_number = n, !.view_number = v,
                          !.timestamp = t, !.parent_hash = parent, !.seed = seed,
                          !.parent_election_hash = election] :
        ty \in {"Micro", "Macro"}, n \in 0..(BATCH_LENGTH + 1), v \in 0..(MaxView + 1),
        t \in 0..BATCH_LENGTH \cup {Now + TIMESTAMP_MAX_DRIFT + 1},
        parent \in DOMAIN HeaderStore \cup {UnknownHash},
        seed \in {"Valid", "Invalid"}, election \in {GenesisHash, UnknownHash}}

VerifyBlockHeader ==
    /\ query = NoQuery
    /\ \E header \in Headers, view_change_proof \in {"None", "Valid", "Invalid", "Skip"} :
          query' = [fn |-> "verify_block_header",
                    header |-> header,
                    view_change_proof |-> view_change_proof,
                    result |-> verify_block_header(HeaderStore, state, header,
                                                   view_change_proof)]
    /\ UNCHANGED <<chainVars, lockVars>>

\* The transaction lists a BlockConfig may carry, in any order.
MaxTxId == 3
MaxTxList == 2
TxLists == UNION {[1..n -> 1..MaxTxId] : n \in 0..MaxTxList}

\* Vec::sort_unstable: the elements in ascending order.
RECURSIVE sort_unstable(_)
sort_unstable(list) ==
    IF list = <<>> THEN <<>>
    ELSE LET i == CHOOSE k \in DOMAIN list : \A j \in DOMAIN list : list[k] <= list[j]
         IN <<list[i]>> \o sort_unstable(SubSeq(list, 1, i - 1)
                                            \o SubSeq(list, i + 1, Len(list)))

\* next_micro_block with the transactions of the BlockConfig: the roots are
\* computed from the sorted copy, the body takes config.transactions.
micro_block_with(st, config_transactions) ==
    LET block == next_micro_block(st)
        transactions == sort_unstable(config_transactions)
    IN [header |-> [block_number |-> block.block_number,
                    view_number |-> block.view_number,
                    timestamp |-> block.timestamp,
                    parent_hash |-> block.parent_hash,
                    state_root |-> accounts_hash(accounts_commit(st.accounts,
                                       AccountsEntry(block.block_number, transactions, 0))),
                    history_root |-> transactions],
        body |-> [fork_proofs |-> <<>>, transactions |-> config_transactions]]

NextMicroBlock ==
    /\ query = NoQuery
    /\ \E config_transactions \in TxLists :
          query' = [fn |-> "next_micro_block",
                    accounts |-> state.accounts,
                    transactions |-> config_transactions,
                    result |-> micro_block_with(state, config_transactions)]
    /\ UNCHANGED <<chainVars, lockVars>>

\* The merger circuit (zkp-circuits, mnt6): the inputs and witnesses of the
\* circuit, and whether its constraints are satisfied.
Commitments == {"c0", "c1"}
VerifyingKeys == {"vk0", "vk1"}

\* VKCommitmentGadget::evaluate: the commitment to a verifying key.
VKCommitment(vk) == [commitment_to |-> vk]

\* Boolean::enforce_equal and the conditional one of the state commitments.
enforce_equal(a, b) == a = b
conditional_enforce_equal(a, b, condition) == condition => a = b

\* MergerCircuit::generate_constraints: merger_verifies and macro_verifies
\* are the results of the two Groth16 verifier gadgets on the witnesses.
generate_constraints(c) ==
    /\ enforce_equal(c.vk_commitment, VKCommitment(c.vk_merger_wrapper))
    /\ conditional_enforce_equal(c.initial_state_commitment,
                                 c.intermediate_state_commitment, c.genesis_flag)
    /\ enforce_equal(c.merger_verifies, ~c.genesis_flag)
    /\ enforce_equal(c.macro_verifies, TRUE)

MergerCircuit ==
    /\ query = NoQuery
    /\ \E c \in [vk_merger_wrapper : VerifyingKeys,
                  vk_commitment : {VKCommitment(vk) : vk \in VerifyingKeys},
                  initial_state_commitment : Commitments,
                  intermediate_state_commitment : Commitments,
                  genesis_flag : BOOLEAN,
                  merger_verifies : BOOLEAN,
                  macro_verifies : BOOLEAN] :
          query' = [fn |-> "merger_circuit", circuit |-> c,
                    satisfied |-> generate_constraints(c)]
    /\ UNCHANGED <<chainVars, lockVars>>

NextFunctions ==
    \/ FinalizePreviousEpoch
    \/ CreateSlashInherents
    \/ GetBlockLocators
    \/ FinalizeMacroBlock
    \/ VerifyBlockHeader
    \/ NextMicroBlock
    \/ MergerCircuit

SpecFunctions == Init /\ [][NextFunctions]_vars

----------------------------------------------------------------------------
(* Rebranching onto a fork of stored blocks: the chain starts as a main    *)
(* chain of micro blocks on the genesis block with a stored fork of the    *)
(* same length, and one step is one call of rebranch for a block on the    *)
(* tip of the fork.  The blocks are micro blocks of one batch.             *)

MaxMain == 2

\* The height index of the chain store: the hashes stored under a height.
HeightIndex(store) == {<<store[h].head.block_number, h>> : h \in DOMAIN store}

\* The index after the remove_chain_info calls: a call removes the hash
\* from the entry of the height it is given.
IndexRemove(idx, removals) ==
    idx \ {<<removals[i].height, removals[i].hash>> : i \in DOMAIN removals}

\* The hashes a lookup by height finds.
IndexedAt(idx, height) == {e[2] : e \in {x \in idx : x[1] = height}}

\* A micro block on prev, in the view asked for or the least one it may
\* have, whose state root is right or wrong.
MicroOn(prev, view, transactions, wrong) ==
    LET first_view_number == next_view_number(prev)
        view_number == IF view > first_view_number THEN view ELSE first_view_number
    IN [ty |-> "Micro", block_number |-> prev.block_number + 1,
        view_number |-> view_number,
        timestamp |-> prev.timestamp + 1, parent_hash |-> Hash(prev),
        state_root |-> IF wrong THEN WrongRoot
                       ELSE accounts_commit(prev.state_root,
                                AccountsEntry(prev.block_number + 1, transactions,
                                    ViewChangeSlashes(first_view_number, view_number))),
        seed |-> "Valid", body_root |-> "OfBody", transactions |-> transactions,
        parent_election_hash |-> NoHash, validators |-> NoValidators,
        history_root |-> {}, body_sets |-> "Computed",
        justification |-> "Valid",
        view_change_proof |-> IF view_number > first_view_number
                              THEN "Valid" ELSE "None"]

\* The main chain: its first block holds the transaction, the others none.
RECURSIVE MainBlocks(_)
MainBlocks(n) ==
    IF n = 0 THEN <<>>
    ELSE LET before == MainBlocks(n - 1)
             prev == IF n = 1 THEN GenesisBlock ELSE before[n - 1]
         IN Append(before, MicroOn(prev, 0, IF n = 1 THEN Txs ELSE {}, FALSE))

ForkChoice == [view_number : 0..MaxView, transactions : TxChoices, wrong : BOOLEAN]

\* The stored fork blocks of the choices, from the genesis block on.
RECURSIVE ForkBlocks(_)
ForkBlocks(choices) ==
    IF choices = <<>> THEN <<>>
    ELSE LET n == Len(choices)
             before == ForkBlocks(SubSeq(choices, 1, n - 1))
             prev == IF n = 1 THEN GenesisBlock ELSE before[n - 1]
         IN Append(before, MicroOn(prev, choices[n].view_number, choices[n].transactions,
                                   choices[n].wrong))

RECURSIVE PushAll(_, _)
PushAll(cache, blocks) ==
    IF blocks = <<>> THEN cache
    ELSE PushAll(cache_push_block(cache, Head(blocks)), Tail(blocks))

\* The store after the main blocks were pushed and the fork blocks stored.
ReplayStore(main, fork) ==
    [h \in {GenesisHash} \cup {Hash(main[i]) : i \in DOMAIN main}
                         \cup {Hash(fork[i]) : i \in DOMAIN fork} |->
        IF h = GenesisHash THEN ChainInfo(GenesisBlock, TRUE, Hash(main[1]))
        ELSE IF \E i \in DOMAIN main : h = Hash(main[i])
        THEN LET i == CHOOSE j \in DOMAIN main : h = Hash(main[j])
             IN ChainInfo(main[i], TRUE,
                          IF i < Len(main) THEN Hash(main[i + 1]) ELSE NoHash)
        ELSE LET i == CHOOSE j \in DOMAIN fork : h = Hash(fork[j])
             IN ChainInfo(fork[i], FALSE, NoHash)]

InitReplay ==
    /\ \E n \in 1..MaxMain : \E choices \in [1..n -> ForkChoice] :
          LET main == MainBlocks(n)
              fork == ForkBlocks(choices)
              head == main[n]
          IN /\ Hash(fork[1]) # Hash(main[1])
             /\ chain_store = ReplayStore(main, fork)
             /\ receipts = 1..n
             /\ state = [accounts |-> head.state_root,
                         transaction_cache |-> PushAll(<<>>, main),
                         main_chain |-> ChainInfo(head, TRUE, NoHash),
                         head_hash |-> Hash(head),
                         macro_info |-> GenesisInfo,
                         macro_head_hash |-> GenesisHash,
                         election_head |-> GenesisBlock,
                         election_head_hash |-> GenesisHash,
                         current_slots |-> slots_from_block(GenesisBlock),
                         previous_slots |-> DefaultSlots]
    /\ isolated = 0
    /\ threads = [t \in Threads |-> Idle]
    /\ push_lock = NoThread
    /\ state_lock = NoThread
    /\ admissions = <<>>
    /\ delivered = <<>>
    /\ calls = 0
    /\ query = NoQuery

\* The stored fork blocks no stored block builds on.
ForkTips ==
    {h \in ForkRecords :
        \A x \in DOMAIN chain_store : chain_store[x].head.parent_hash # h}

\* The blocks whose push makes the fork the longer chain.
ReplayInputs ==
    {MicroOn(chain_store[h].head, c.view_number, c.transactions, c.wrong) :
        h \in ForkTips, c \in ForkChoice}

\* A push that found its block on a better chain: rebranch runs, and the
\* height index follows the puts and the remove_chain_info calls.
Rebranch ==
    /\ query = NoQuery
    /\ \E block \in ReplayInputs :
          LET o == rebranch(Hash(block), NewChainInfo(block))
          IN /\ Apply(o)
             /\ query' = [fn |-> "rebranch", block |-> block, result |-> o.result,
                          store |-> chain_store, state |-> state,
                          receipts |-> receipts, removed |-> o.removed,
                          height_idx |-> IndexRemove(HeightIndex(chain_store)
                                                       \cup HeightIndex(o.store),
                                                    o.removed)]
    /\ UNCHANGED <<isolated, lockVars>>

SpecReplay == InitReplay /\ [][Rebranch]_vars

----------------------------------------------------------------------------
(* Block production beside pushes: next_micro_block reads the head through *)
(* the accessors of the chain manager, one read lock per call, while       *)
(* blocks are pushed; query holds the values the producer has read.  The   *)
(* macro proposal is produced in one step.                                 *)

MaxProduced == 3

\* The history of the main chain as the history store holds it.
HistoryOf(store) ==
    {[block_number |-> store[h].head.block_number,
      timestamp |-> store[h].head.timestamp,
      transactions |-> store[h].head.transactions] :
        h \in {x \in DOMAIN store : store[x].on_main_chain}}

\* The database environment of the chain manager.
Env == [chain_store |-> chain_store, receipts |-> receipts,
        history |-> HistoryOf(chain_store)]

\* A write transaction on the environment: its own view of the data.
write_transaction(env) == env

\* HistoryStore::add_to_history inside a write transaction.
add_to_history(txn, ext_txs) == [txn EXCEPT !.history = @ \cup {ext_txs}]

\* The transaction committed: its view becomes the environment.
txn_commit(env, txn) == txn

\* WriteTransaction::abort: the environment stays as it was.
txn_abort(env, txn) == env

\* ExtendedTransaction::from of a block without transactions.
ExtTxs(block_number, timestamp) ==
    [block_number |-> block_number, timestamp |-> timestamp, transactions |-> {}]

\* The seed of the head, signed by the producer.
sign_next(prev_seed) == [signed |-> prev_seed]

\* A push of a well-formed block on the head while the producer works.
PushHead ==
    /\ state.main_chain.head.block_number < MaxProduced
    /\ \E v \in 0..MaxView :
          Apply(push_block(SuccessorBlock(state.head_hash, v, {})))
    /\ UNCHANGED <<isolated, lockVars, query>>

\* blockchain.block_number() (54).
ReadBlockNumber ==
    /\ query = NoQuery
    /\ query' = [fn |-> "next_micro_block", pc |-> "timestamp",
                 block_number |-> state.main_chain.head.block_number + 1,
                 timestamp |-> 0, parent_hash |-> NoHash, prev_seed |-> NoHash,
                 view_number |-> 0, first_view_number |-> 0,
                 state_root |-> {}, history_root |-> {}, env |-> Env]
    /\ UNCHANGED <<chainVars, lockVars>>

\* blockchain.head().timestamp() (56).
ReadTimestamp ==
    /\ query.fn = "next_micro_block" /\ query.pc = "timestamp"
    /\ query' = [query EXCEPT !.pc = "parent_hash",
                              !.timestamp = state.main_chain.head.timestamp + 1]
    /\ UNCHANGED <<chainVars, lockVars>>

\* blockchain.head_hash() (58-61).
ReadHeadHash ==
    /\ query.fn = "next_micro_block" /\ query.pc = "parent_hash"
    /\ query' = [query EXCEPT !.pc = "seed", !.parent_hash = state.head_hash]
    /\ UNCHANGED <<chainVars, lockVars>>

\* blockchain.head().seed() (63): the seed of a block is its own.
ReadSeed ==
    /\ query.fn = "next_micro_block" /\ query.pc = "seed"
    /\ query' = [query EXCEPT !.pc = "view_number", !.prev_seed = state.head_hash]
    /\ UNCHANGED <<chainVars, lockVars>>

\* blockchain.next_view_number() for the header (69).
ReadViewNumber ==
    /\ query.fn = "next_micro_block" /\ query.pc = "view_number"
    /\ query' = [query EXCEPT !.pc = "view_changes",
                              !.view_number = next_view_number(state.main_chain.head)]
    /\ UNCHANGED <<chainVars, lockVars>>

\* blockchain.next_view_number() for the view changes (74-79).
ReadViewChanges ==
    /\ query.fn = "next_micro_block" /\ query.pc = "view_changes"
    /\ query' = [query EXCEPT !.pc = "state_root",
                              !.first_view_number = next_view_number(state.main_chain.head)]
    /\ UNCHANGED <<chainVars, lockVars>>

\* blockchain.state().accounts.get_root_with (83-89).
ComputeStateRoot ==
    /\ query.fn = "next_micro_block" /\ query.pc = "state_root"
    /\ query' = [query EXCEPT
                    !.pc = "history_root",
                    !.state_root = accounts_hash(accounts_commit(state.accounts,
                        AccountsEntry(query.block_number, {},
                            ViewChangeSlashes(query.first_view_number,
                                              query.view_number))))]
    /\ UNCHANGED <<chainVars, lockVars>>

\* The write transaction of the history root and its abort (99-108); the
\* block is assembled from the values read.
ComputeHistoryRoot ==
    /\ query.fn = "next_micro_block" /\ query.pc = "history_root"
    /\ LET txn == add_to_history(write_transaction(Env),
                                 ExtTxs(query.block_number, query.timestamp))
       IN query' = [query EXCEPT !.pc = "done",
                                 !.history_root = txn.history,
                                 !.env = txn_abort(Env, txn)]
    /\ UNCHANGED <<chainVars, lockVars>>

\* next_macro_block_proposal at a macro height (163-248), with its write
\* transaction and the abort (213-220).
ProposeMacroBlock ==
    /\ query = NoQuery
    /\ is_macro_block_at(state.main_chain.head.block_number + 1)
    /\ LET proposal == next_macro_block_proposal(state)
           txn == add_to_history(write_transaction(Env),
                                 ExtTxs(proposal.block_number, proposal.timestamp))
       IN query' = [fn |-> "next_macro_block_proposal", pc |-> "done",
                    result |-> [proposal EXCEPT !.history_root = txn.history],
                    env |-> txn_abort(Env, txn)]
    /\ UNCHANGED <<chainVars, lockVars>>

NextProducer ==
    \/ PushHead
    \/ ReadBlockNumber
    \/ ReadTimestamp
    \/ ReadHeadHash
    \/ ReadSeed
    \/ ReadViewNumber
    \/ ReadViewChanges
    \/ ComputeStateRoot
    \/ ComputeHistoryRoot
    \/ ProposeMacroBlock

SpecProducer == Init /\ [][NextProducer]_vars

----------------------------------------------------------------------------
(* Re-opening the chain manager from the persisted environment: the chain  *)
(* store with its head pointer and the accounts tree.                      *)

LoadError(err) == [result |-> err, state |-> None]

\* Blockchain::load; Panic stands for the failing assert_eq! on the
\* transaction cache.
load(store, head_hash, accounts) ==
    LET genesis_info == get_chain_info(store, GenesisHash)
        main_chain == get_chain_info(store, head_hash)
        number == main_chain.head.block_number
        macro_chain_info == get_chain_info_at(store, last_macro_block(number))
        election_chain_info == get_chain_info_at(store, last_election_block(number))
        election_head == election_chain_info.head
        blocks == get_blocks_backward(store, head_hash, missing_blocks(<<>>) - 1)
        transaction_cache == cache_push_block(PushAll(<<>>, Reverse(blocks)),
                                              main_chain.head)
        prev_block == get_chain_info(store, election_head.parent_election_hash)
    IN IF genesis_info = None THEN LoadError("InvalidGenesisBlock")
       ELSE IF ~genesis_info.on_main_chain THEN LoadError("InvalidGenesisBlock")
       ELSE IF main_chain = None THEN LoadError("FailedLoadingMainChain")
       ELSE IF main_chain.head.state_root # accounts_hash(accounts)
       THEN LoadError("InconsistentState")
       ELSE IF macro_chain_info = None THEN LoadError("FailedLoadingMainChain")
       ELSE IF macro_chain_info.head.ty # "Macro" THEN LoadError("InconsistentState")
       ELSE IF election_chain_info = None THEN LoadError("FailedLoadingMainChain")
       ELSE IF election_head.ty # "Macro" THEN LoadError("InconsistentState")
       ELSE IF ~is_election_block(election_head) THEN LoadError("InconsistentState")
       ELSE IF missing_blocks(transaction_cache)
                  # SaturatingSub(TRANSACTION_VALIDITY_WINDOW, number + 1)
       THEN LoadError("Panic")
       ELSE IF prev_block # None /\ prev_block.head.ty # "Macro"
       THEN LoadError("InconsistentState")
       ELSE IF prev_block # None /\ ~is_election_block(prev_block.head)
       THEN LoadError("InconsistentState")
       ELSE [result |-> "Ok",
             state |-> [accounts |-> accounts,
                        transaction_cache |-> transaction_cache,
                        main_chain |-> main_chain,
                        head_hash |-> head_hash,
                        macro_info |-> macro_chain_info,
                        macro_head_hash |-> Hash(macro_chain_info.head),
                        election_head |-> election_head,
                        election_head_hash |-> Hash(election_head),
                        current_slots |-> slots_from_block(election_head),
                        previous_slots |-> IF prev_block = None THEN DefaultSlots
                                           ELSE slots_from_block(prev_block.head)]]

----------------------------------------------------------------------------
(* Properties                                                              *)

\* The main-chain records of the store.
MainRecords == {h \in DOMAIN chain_store : chain_store[h].on_main_chain}

\* The main-chain blocks of a height.
MainBlocksAt(height) ==
    {chain_store[h].head : h \in {k \in MainRecords :
                                     chain_store[k].head.block_number = height}}

\* The blocks pushed on a stored block other than the head, with the block
\* number after that block's.
BranchInputs ==
    {b \in PushInputs : /\ b.parent_hash \in DOMAIN chain_store
                        /\ b.parent_hash # state.head_hash
                        /\ b.block_number =
                               chain_store[b.parent_hash].head.block_number + 1
                        /\ Hash(b) \notin DOMAIN chain_store
                        /\ BlockVerify(b)}

\* The blocks of the branch that ends with the block: the block and its
\* stored ancestors that are off the main chain.
RECURSIVE BranchOf(_)
BranchOf(b) ==
    IF b.parent_hash \in DOMAIN chain_store
          /\ ~chain_store[b.parent_hash].on_main_chain
    THEN {b} \cup BranchOf(chain_store[b.parent_hash].head)
    ELSE {b}

HeadNumber == state.main_chain.head.block_number

\* The heights at which the branch and the main chain carry different
\* view numbers, up to the lower of the two tips.
DifferingHeights(b) ==
    {x.block_number : x \in {y \in BranchOf(b) :
        /\ y.block_number <= HeadNumber
        /\ y.block_number <= b.block_number
        /\ \E m \in MainBlocksAt(y.block_number) : m.view_number # y.view_number}}

FirstDiffering(b) ==
    CHOOSE h \in DifferingHeights(b) : \A k \in DifferingHeights(b) : h <= k

BranchViewAt(b, h) ==
    (CHOOSE x \in BranchOf(b) : x.block_number = h).view_number

MainViewAt(h) == (CHOOSE m \in MainBlocksAt(h) : TRUE).view_number

ChainOrder(b) ==
    order_chains(chain_store, state, b, get_chain_info(chain_store, b.parent_hash))

\* The branches the comparison is defined on: one block per height, each
\* height on the main chain once.
Comparable(b) ==
    /\ ChainOrder(b) # "Panic"
    /\ DifferingHeights(b) # {}
    /\ \A x \in BranchOf(b) :
          x.block_number <= HeadNumber => Cardinality(MainBlocksAt(x.block_number)) = 1

\* C1 (as amended): at the first height where the view numbers of the
\* branch and of the main chain differ the HIGHER view number wins: the
\* order is Better when the branch's view number is higher and Inferior
\* when it is lower, and the push of an Inferior block is Ignored.
C1_HigherViewWins ==
    \A b \in BranchInputs :
        Comparable(b) =>
            LET h == FirstDiffering(b)
            IN IF BranchViewAt(b, h) > MainViewAt(h)
               THEN ChainOrder(b) = "Better"
               ELSE /\ ChainOrder(b) = "Inferior"
                    /\ push_block(b).result = "Ignored"

\* C1 witness: a block on the head's parent with a higher view number than
\* the head is Better and the manager rebranches to it.
C1_Witness ==
    \E b \in BranchInputs :
        /\ Comparable(b)
        /\ b.parent_hash = state.main_chain.head.parent_hash
        /\ b.view_number > state.main_chain.head.view_number
        /\ ChainOrder(b) = "Better"
        /\ push_block(b).result = "Rebranched"
        /\ push_block(b).state.head_hash = Hash(b)

\* C1 as stated: at the first differing height the lower view number wins.
C1_LowerViewWins ==
    \A b \in BranchInputs :
        Comparable(b) =>
            LET h == FirstDiffering(b)
            IN IF BranchViewAt(b, h) < MainViewAt(h)
               THEN ChainOrder(b) = "Better"
               ELSE ChainOrder(b) = "Inferior"

\* The main-chain block the branch of the block starts from.
RECURSIVE AncestorOf(_)
AncestorOf(b) ==
    IF b.parent_hash \in DOMAIN chain_store
          /\ ~chain_store[b.parent_hash].on_main_chain
    THEN AncestorOf(chain_store[b.parent_hash].head)
    ELSE chain_store[b.parent_hash].head

\* The block passes the header, slot and justification checks of push.
Verified(b) ==
    /\ get_slot_at(chain_store, state, b.block_number) # None
    /\ verify_block_header(chain_store, state, b, ViewChangeProofCheck(b)) = "Ok"
    /\ JustificationCheck(b) = "Ok"

\* A verified block of a micro-block branch that is Better than the main
\* chain and leaves it below the macro head.
BelowMacroHead(b) ==
    /\ Verified(b)
    /\ ChainOrder(b) = "Better"
    /\ \A x \in BranchOf(b) : x.ty = "Micro"
    /\ AncestorOf(b).block_number < state.macro_info.head.block_number

\* The record of a macro block of the main chain, under the block's hash.
MacroOnMain(store, h) ==
    /\ h \in DOMAIN store
    /\ store[h].on_main_chain
    /\ store[h].head.ty = "Macro"
    /\ h = Hash(store[h].head)

NoChange(o) ==
    /\ o.store = chain_store
    /\ o.receipts = receipts
    /\ o.state = state

\* C2: a macro block that is on the main chain stays on the main chain
\* through every push and push_isolated_macro_block, and a Better block
\* whose branch leaves the main chain below the macro head is rejected
\* with InvalidFork and changes nothing.
C2_MacroFinality ==
    /\ [](\A b \in BranchInputs :
            BelowMacroHead(b) => /\ push_block(b).result = "InvalidFork"
                                 /\ NoChange(push_block(b)))
    /\ [][\A h \in DOMAIN chain_store :
            MacroOnMain(chain_store, h) =>
                /\ MacroOnMain(chain_store', h)
                /\ chain_store'[h].head = chain_store[h].head]_vars

\* C2 witness: a macro block above genesis is on the main chain and a
\* Better branch from below it is rejected with InvalidFork.
C2_Witness ==
    /\ state.macro_info.head.block_number >= BATCH_LENGTH
    /\ MacroOnMain(chain_store, state.macro_head_hash)
    /\ \E b \in BranchInputs :
          BelowMacroHead(b) /\ push_block(b).result = "InvalidFork"

\* C3: after every completed admission the state root of the head block is
\* the root of the accounts tree.
C3_StateRoot ==
    state.main_chain.head.state_root = accounts_hash(state.accounts)

\* The transactions a block brought to the accounts: its own and, for a
\* block of push_isolated_macro_block, the list its history root commits to.
TxsOf(block) == block.transactions \cup IsolatedTransactions(block)

\* The last count blocks of the chain that ends with the block.
RECURSIVE LastBlocks(_, _)
LastBlocks(block, count) ==
    IF count = 0 THEN {}
    ELSE {block} \cup
         (IF block.parent_hash \in DOMAIN chain_store
          THEN LastBlocks(chain_store[block.parent_hash].head, count - 1)
          ELSE {})

Window == LastBlocks(state.main_chain.head, TRANSACTION_VALIDITY_WINDOW)

ReplayCacheExact ==
    cache_hashes(state.transaction_cache) = UNION {TxsOf(b) : b \in Window}

Linked(a, b) ==
    /\ b.parent_hash = Hash(a)
    /\ b.block_number = a.block_number + 1
    /\ b.timestamp > a.timestamp

Linkage ==
    \A h \in MainRecords :
        chain_store[h].main_chain_successor # NoHash =>
            /\ chain_store[h].main_chain_successor \in DOMAIN chain_store
            /\ Linked(chain_store[h].head,
                      chain_store[chain_store[h].main_chain_successor].head)

RECURSIVE Successors(_, _)
Successors(h, count) ==
    IF count = 0 \/ h \notin DOMAIN chain_store THEN {}
    ELSE {h} \cup Successors(chain_store[h].main_chain_successor, count - 1)

\* C6: the records with on_main_chain are exactly those reached from
\* genesis by successor pointers, the walk ends at the head, whose
\* successor is None, there is at most one main-chain record per height and
\* every record is stored under the hash of its own block.
C6_MainChainFlags ==
    /\ MainRecords = Successors(GenesisHash, Cardinality(DOMAIN chain_store))
    /\ state.head_hash \in MainRecords
    /\ chain_store[state.head_hash].main_chain_successor = NoHash
    /\ \A h \in MainRecords :
          chain_store[h].main_chain_successor = NoHash => h = state.head_hash
    /\ \A h, k \in MainRecords :
          chain_store[h].head.block_number = chain_store[k].head.block_number => h = k
    /\ \A h \in DOMAIN chain_store : h = Hash(chain_store[h].head)

\* C7: election_head is the main-chain block at the largest election height
\* up to the head and the macro head is the main-chain block at the largest
\* macro height up to the head.
C7_HeadPointers ==
    /\ state.election_head \in MainBlocksAt(last_election_block(HeadNumber))
    /\ state.macro_info.head \in MainBlocksAt(last_macro_block(HeadNumber))
    /\ state.election_head_hash = Hash(state.election_head)
    /\ state.macro_head_hash = Hash(state.macro_info.head)

\* The blocks push admits: on the main chain or stored as a fork.
Admitted(b) == push_block(b).result \in {"Extended", "Rebranched", "Forked"}

\* The view number a block has to reach: 0 after a macro block, else the
\* view number of its predecessor.
EffectiveViewOf(b) ==
    LET pred == chain_store[b.parent_hash].head
    IN IF pred.ty = "Macro" THEN 0 ELSE pred.view_number

\* C8 (as amended): every block admitted by push has a view number of at
\* least the effective view; an admitted micro block carries a verifying
\* view-change proof if and only if its view number is above the effective
\* view, while the proof check is skipped for macro blocks.
C8_ViewChangeProofMicro ==
    \A b \in PushInputs :
        Admitted(b) =>
            /\ b.view_number >= EffectiveViewOf(b)
            /\ b.ty = "Micro" =>
                  (b.view_change_proof = "Valid" <=> b.view_number > EffectiveViewOf(b))

\* C8 witness: a micro block above the effective view is admitted with its
\* proof and a macro block above the effective view is admitted without.
C8_Witness ==
    /\ \E b \in PushInputs :
          /\ Admitted(b) /\ b.ty = "Micro"
          /\ b.view_number > EffectiveViewOf(b)
          /\ b.view_change_proof = "Valid"
    /\ \E b \in PushInputs :
          /\ Admitted(b) /\ b.ty = "Macro"
          /\ b.view_number > EffectiveViewOf(b)

\* C8 as stated: the proof rule holds for macro blocks too.
C8_ViewChangeProofAll ==
    \A b \in PushInputs :
        Admitted(b) =>
            /\ b.view_number >= EffectiveViewOf(b)
            /\ b.view_change_proof = "Valid" <=> b.view_number > EffectiveViewOf(b)

\* A verified block on the head with a transaction of the last W blocks.
Replays(b) ==
    /\ b.parent_hash = state.head_hash
    /\ Hash(b) \notin DOMAIN chain_store
    /\ BlockVerify(b)
    /\ Verified(b)
    /\ b.transactions \cap UNION {x.transactions : x \in Window} # {}

\* C9: a block that extends the head and contains a transaction of one of
\* the last W main-chain blocks is rejected with DuplicateTransaction and
\* changes nothing; after pushes only, no transaction is in two of the last
\* W main-chain blocks.
C9_ReplayProtection ==
    /\ \A b \in PushInputs :
          Replays(b) => /\ push_block(b).result = "DuplicateTransaction"
                        /\ NoChange(push_block(b))
    /\ isolated = 0 =>
          \A x, y \in Window : x # y => x.transactions \cap y.transactions = {}

\* C9 witness: a block with a transaction of the last W blocks is pushed on
\* the head and rejected.
C9_Witness ==
    \E b \in PushInputs :
        Replays(b) /\ push_block(b).result = "DuplicateTransaction"

Oks == {"Extended", "Rebranched", "Forked", "Known", "Ignored"}

\* The call returns an Err (a panic does not return).
Failed(o) == o.result \notin Oks \cup {"Panic"}

\* Nothing of the in-memory state, no main-chain record and no flag changed.
NoOp(o) ==
    /\ o.state = state
    /\ o.receipts = receipts
    /\ \A h \in DOMAIN o.store : h \in DOMAIN chain_store /\ o.store[h] = chain_store[h]
    /\ \A h \in DOMAIN chain_store : chain_store[h].on_main_chain => h \in DOMAIN o.store

IsPrefix(s, t) ==
    /\ Len(s) <= Len(t)
    /\ \A i \in 1..Len(s) : s[i] = t[i]

\* C11: for any interleaving of concurrent push and
\* push_isolated_macro_block calls, the event of an admission is delivered
\* only after the admission's write transaction has committed, and the
\* events are delivered in the order in which the admissions took place.
C11_EventOrder == IsPrefix(delivered, admissions)

\* The thread is between taking and giving up the push mutex.
InCritical(t) == threads[t].pc \notin {"idle", "released"}

\* The fields of the in-memory state belong to one admission.
Untorn ==
    /\ state.head_hash = Hash(state.main_chain.head)
    /\ state.macro_head_hash = Hash(state.macro_info.head)
    /\ state.election_head_hash = Hash(state.election_head)
    /\ state.macro_info.head.block_number <= HeadNumber
    /\ state.main_chain.head.ty = "Macro" => state.macro_info = state.main_chain
    /\ is_election_block(state.main_chain.head) =>
          /\ state.election_head = state.main_chain.head
          /\ state.current_slots = slots_from_block(state.main_chain.head)
    /\ state.transaction_cache # <<>> =>
          state.transaction_cache[Len(state.transaction_cache)].hash.block_number
              <= HeadNumber

\* The head hash names a committed main-chain record.
HeadCommitted ==
    /\ state.head_hash \in DOMAIN chain_store
    /\ chain_store[state.head_hash].on_main_chain
    /\ chain_store[state.head_hash].head = state.main_chain.head

\* C12: at most one push or push_isolated_macro_block is inside its
\* critical section; whenever the write lock is free (a reader can hold the
\* read lock) the in-memory fields belong to one admission and the head
\* hash is committed in the store as a main-chain block; a thread that
\* publishes an event has released the write lock before.
C12_SerializedUntorn ==
    /\ [](/\ Cardinality({t \in Threads : InCritical(t)}) <= 1
          /\ state_lock = NoThread => Untorn /\ HeadCommitted)
    /\ [][\A t \in Threads :
              delivered' # delivered /\ threads'[t] # threads[t] => state_lock # t]_vars

\* C12 witness: a thread holds the write lock in the middle of its writes
\* (the fields belong to two admissions or the head is not committed yet)
\* while another thread is still to deliver the event of its admission.
C12_Witness ==
    /\ state_lock # NoThread
    /\ ~(Untorn /\ HeadCommitted)
    /\ \E t \in Threads : threads[t].pc = "released"

\* The branch of the block and the main chain carry the same view number at
\* every height they share, and the main chain has one block per height.
Tied(b) ==
    /\ ChainOrder(b) # "Panic"
    /\ DifferingHeights(b) = {}
    /\ \A x \in BranchOf(b) :
          x.block_number <= HeadNumber => Cardinality(MainBlocksAt(x.block_number)) = 1

\* C13: when the branch of the incoming block and the main chain tie on
\* every compared height, order_chains returns Better if the block is above
\* the head and Unknown if it is at the head's height; it returns Extend
\* exactly when the block's parent is the head.
C13_TieRule ==
    /\ \A b \in BranchInputs :
          Tied(b) => /\ b.block_number > HeadNumber => ChainOrder(b) = "Better"
                     /\ b.block_number = HeadNumber => ChainOrder(b) = "Unknown"
    /\ \A b \in PushInputs :
          b.parent_hash \in DOMAIN chain_store =>
              (ChainOrder(b) = "Extend" <=> b.parent_hash = state.head_hash)

\* C13 witness: of two blocks on branches that tie with the main chain, the
\* one above the head is Better and the manager rebranches to it, the one
\* at the head's height is Unknown and stored as a fork.
C13_Witness ==
    /\ \E b \in BranchInputs :
          /\ Tied(b) /\ b.block_number > HeadNumber
          /\ ChainOrder(b) = "Better"
          /\ push_block(b).result = "Rebranched"
    /\ \E b \in BranchInputs :
          /\ Tied(b) /\ b.block_number = HeadNumber
          /\ ChainOrder(b) = "Unknown"
          /\ push_block(b).result = "Forked"

\* The main-chain blocks above the block the branch starts from.
MainAbove(b) ==
    {chain_store[h].head : h \in {k \in MainRecords :
        chain_store[k].head.block_number > AncestorOf(b).block_number}}

\* The store and the state with the roles exchanged: the branch of the
\* block is the main chain, the main chain above the fork point is a branch.
SwappedStore(b) ==
    [h \in DOMAIN chain_store \cup {Hash(b)} |->
        IF h = Hash(b) THEN ChainInfo(b, TRUE, NoHash)
        ELSE IF chain_store[h].head \in BranchOf(b)
        THEN [chain_store[h] EXCEPT !.on_main_chain = TRUE]
        ELSE IF chain_store[h].head \in MainAbove(b)
        THEN [chain_store[h] EXCEPT !.on_main_chain = FALSE]
        ELSE chain_store[h]]

SwappedState(b) ==
    [state EXCEPT !.head_hash = Hash(b), !.main_chain = ChainInfo(b, TRUE, NoHash)]

\* The classification of the main chain's tip while the branch is the main
\* chain.
SwappedOrder(b) ==
    order_chains(SwappedStore(b), SwappedState(b), state.main_chain.head,
                 get_chain_info(SwappedStore(b), state.main_chain.head.parent_hash))

\* Two competing branches of micro blocks that leave the chain at one fork
\* point: the branch of the incoming block and the main chain above it, the
\* main chain having one record per height from the fork point on.
Competing(b) ==
    /\ AncestorOf(b) # state.main_chain.head
    /\ state.main_chain.head.parent_hash \in DOMAIN chain_store
    /\ \A x \in BranchOf(b) : x.ty = "Micro"
    /\ \A m \in MainAbove(b) : m.ty = "Micro"
    /\ \A h \in AncestorOf(b).block_number .. HeadNumber :
          Cardinality(MainBlocksAt(h)) = 1

\* The two classifications of a pair of competing branches: the branch
\* while the main chain is the main chain, and the main chain while the
\* branch is.
Orders(b) == <<ChainOrder(b), SwappedOrder(b)>>

Classified(b) == Competing(b) /\ "Panic" \notin {Orders(b)[1], Orders(b)[2]}

\* The orders of a pair that ties at every shared height: by length alone.
TieOrders(b) ==
    <<IF b.block_number > HeadNumber THEN "Better" ELSE "Unknown",
      IF HeadNumber > b.block_number THEN "Better" ELSE "Unknown">>

\* C14 (as amended): two competing branches that differ in view number at a
\* height they share are ordered, and B is Inferior while A is the main
\* chain if and only if A is Better while B is the main chain; two branches
\* that tie at every shared height are decided by length alone: the longer
\* one is Better, the other (or both, at equal length) is Unknown and never
\* Inferior.
C14_AntisymmetryOnViews ==
    \A b \in BranchInputs :
        Competing(b) =>
            LET o == Orders(b)
            IN \/ "Panic" \in {o[1], o[2]}
               \/ IF DifferingHeights(b) # {}
                  THEN o \in {<<"Better", "Inferior">>, <<"Inferior", "Better">>}
                  ELSE o = TieOrders(b)

\* C14 witness: a branch that is Inferior to the main chain while the main
\* chain is Better than it, and a branch that ties with a longer main chain.
C14_Witness ==
    /\ \E b \in BranchInputs :
          /\ Classified(b) /\ DifferingHeights(b) # {}
          /\ Orders(b) = <<"Inferior", "Better">>
    /\ \E b \in BranchInputs :
          /\ Classified(b) /\ DifferingHeights(b) = {}
          /\ HeadNumber > b.block_number
          /\ Orders(b) = <<"Unknown", "Better">>

\* C14 as stated: for any two competing branches, B is Inferior while A is
\* the main chain if and only if A is Better while B is the main chain.
C14_Antisymmetry ==
    \A b \in BranchInputs :
        Competing(b) =>
            LET o == Orders(b)
            IN \/ "Panic" \in {o[1], o[2]}
               \/ (o[1] = "Inferior" <=> o[2] = "Better")

\* The block is classified against the main chain: it is not stored, it
\* passes the intrinsic checks and its predecessor is stored.
Classifies(b) ==
    /\ Hash(b) \notin DOMAIN chain_store
    /\ BlockVerify(b)
    /\ b.parent_hash \in DOMAIN chain_store

\* The call writes nothing and publishes nothing.
PureNoOp(o) == NoChange(o) /\ o.events = <<>> /\ o.fork_events = {}

\* C15: the push of a block whose hash is in the chain store, on the main
\* chain or on a fork, returns Known, and the push of a block classified
\* Inferior returns Ignored whatever its header; both write nothing to the
\* store, publish no event and leave the in-memory state unchanged.
C15_KnownIgnoredNoOps ==
    \A b \in PushInputs :
        LET o == push_block(b)
        IN /\ Hash(b) \in DOMAIN chain_store => o.result = "Known" /\ PureNoOp(o)
           /\ Classifies(b) /\ ChainOrder(b) = "Inferior" =>
                  o.result = "Ignored" /\ PureNoOp(o)
           /\ o.result \in {"Known", "Ignored"} => PureNoOp(o)

\* C15 witness: a block stored on a fork is Known, and an Inferior block
\* that would fail the header verification is Ignored.
C15_Witness ==
    /\ \E b \in PushInputs :
          /\ Hash(b) \in DOMAIN chain_store
          /\ ~chain_store[Hash(b)].on_main_chain
          /\ push_block(b).result = "Known"
    /\ \E b \in PushInputs :
          /\ Classifies(b) /\ ChainOrder(b) = "Inferior"
          /\ verify_block_header(chain_store, state, b, ViewChangeProofCheck(b)) # "Ok"
          /\ push_block(b).result = "Ignored"

\* The store with one more record, the block's, off the main chain and
\* without successor, and every other record as it was.
ForkStored(o, b) ==
    /\ DOMAIN o.store = DOMAIN chain_store \cup {Hash(b)}
    /\ o.store[Hash(b)].head = b
    /\ ~o.store[Hash(b)].on_main_chain
    /\ o.store[Hash(b)].main_chain_successor = NoHash
    /\ \A h \in DOMAIN chain_store : o.store[h] = chain_store[h]

\* C16: a block classified Unknown that passes the verification is stored
\* as a record off the main chain and the push returns Forked; the state
\* (head, accounts, transaction cache, macro and election heads, slots), the
\* receipts and every other record are unchanged and no blockchain event is
\* published.
C16_Forked ==
    \A b \in PushInputs :
        LET o == push_block(b)
        IN /\ Classifies(b) /\ ChainOrder(b) = "Unknown" /\ Verified(b) =>
                  o.result = "Forked"
           /\ o.result = "Forked" =>
                  /\ ChainOrder(b) = "Unknown"
                  /\ ForkStored(o, b)
                  /\ o.state = state
                  /\ o.receipts = receipts
                  /\ o.events = <<>>

\* C16 witness: a verified block that ties with the main chain at the
\* head's height is stored as a fork.
C16_Witness ==
    \E b \in PushInputs :
        /\ Classifies(b) /\ ChainOrder(b) = "Unknown" /\ Verified(b)
        /\ b.block_number = HeadNumber
        /\ push_block(b).result = "Forked"
        /\ ForkStored(push_block(b), b)

\* C17: a push that returns Extended publishes exactly one blockchain
\* event, for the hash of the admitted block: EpochFinalized if and only if
\* the block is an election macro block, Finalized otherwise; a push that
\* returns Rebranched publishes exactly one Rebranched event; a push that
\* returns Known, Ignored, Forked or an error publishes none.
C17_EventsPerOutcome ==
    \A b \in PushInputs :
        LET o == push_block(b)
        IN CASE o.result = "Extended" ->
                    /\ Len(o.events) = 1
                    /\ o.events[1].hash = Hash(b)
                    /\ o.events[1].type =
                           IF is_election_block(b) THEN "EpochFinalized" ELSE "Finalized"
             [] o.result = "Rebranched" ->
                    /\ Len(o.events) = 1
                    /\ o.events[1].type = "Rebranched"
             [] OTHER -> o.events = <<>>

\* C17 witness: in one state an election block extends the chain with an
\* EpochFinalized event, a block of a fork rebranches it with one Rebranched
\* event, and a block is rejected without event.
C17_Witness ==
    /\ \E b \in PushInputs :
          /\ is_election_block(b)
          /\ push_block(b).result = "Extended"
          /\ push_block(b).events = <<[type |-> "EpochFinalized", hash |-> Hash(b)]>>
    /\ \E b \in PushInputs :
          /\ push_block(b).result = "Rebranched"
          /\ Len(push_block(b).events) = 1
    /\ \E b \in PushInputs : Failed(push_block(b)) /\ push_block(b).events = <<>>

\* The hash of the main-chain record the branch of the block starts from.
RECURSIVE AncestorHash(_)
AncestorHash(b) ==
    IF b.parent_hash \in DOMAIN chain_store
          /\ ~chain_store[b.parent_hash].on_main_chain
    THEN AncestorHash(chain_store[b.parent_hash].head)
    ELSE b.parent_hash

\* The hashes of the chain from a record down to, and without, another.
RECURSIVE ChainDownTo(_, _)
ChainDownTo(hash, stop) ==
    IF hash = stop \/ hash \notin DOMAIN chain_store THEN {}
    ELSE {hash} \cup ChainDownTo(chain_store[hash].head.parent_hash, stop)

\* The former main chain above the fork point and the fork, as hashes.
RevertedHashes(b) == ChainDownTo(state.head_hash, AncestorHash(b))

AdoptedHashes(b) == {Hash(x) : x \in BranchOf(b)}

\* The sequence lists exactly the hashes of the set, by ascending height.
ListsAscending(list, hashes, store) ==
    /\ Len(list) = Cardinality(hashes)
    /\ {list[i] : i \in 1..Len(list)} = hashes
    /\ \A i \in 1..Len(list) : \A j \in 1..Len(list) :
          i < j => store[list[i]].head.block_number < store[list[j]].head.block_number

\* The successor of a block of the fork: its child in the fork, none at the tip.
SuccessorIn(b, hash) ==
    IF hash = Hash(b) THEN NoHash
    ELSE Hash(CHOOSE y \in BranchOf(b) : y.parent_hash = hash)

RebranchedTo(o, b) ==
    /\ o.state.head_hash = Hash(b)
    /\ o.state.main_chain.head = b
    /\ \A h \in RevertedHashes(b) :
          /\ ~o.store[h].on_main_chain
          /\ o.store[h].main_chain_successor = NoHash
    /\ \A h \in AdoptedHashes(b) :
          /\ o.store[h].on_main_chain
          /\ o.store[h].main_chain_successor = SuccessorIn(b, h)
    /\ o.store[AncestorHash(b)].on_main_chain
    /\ o.store[AncestorHash(b)].main_chain_successor = SuccessorIn(b, AncestorHash(b))
    /\ ListsAscending(o.events[1].reverted, RevertedHashes(b), o.store)
    /\ ListsAscending(o.events[1].adopted, AdoptedHashes(b), o.store)

\* C18: when push returns Rebranched the head is the pushed block; every
\* block of the former main chain from the old head down to, and without,
\* the common ancestor is off the main chain and has no successor; every
\* block of the fork is on the main chain and the successors lead from the
\* ancestor to the tip, which has none; and the Rebranched event lists
\* exactly the reverted and the adopted blocks, each by ascending height.
C18_Rebranched ==
    \A b \in BranchInputs :
        LET o == push_block(b)
        IN o.result = "Rebranched" => RebranchedTo(o, b)

\* C18 witness: a rebranch that reverts two blocks, and one that adopts two.
C18_Witness ==
    \E b \in BranchInputs :
        /\ push_block(b).result = "Rebranched"
        /\ RebranchedTo(push_block(b), b)
        /\ \/ Cardinality(RevertedHashes(b)) >= 2
           \/ Cardinality(AdoptedHashes(b)) >= 2

\* The step is a rebranch that reverts the record: on the main chain
\* before, stored and off the main chain after.
Reverts(h) ==
    /\ chain_store[h].on_main_chain
    /\ h \in DOMAIN chain_store'
    /\ ~chain_store'[h].on_main_chain

\* The outcome restores what the store and the state held of the main
\* chain: head, flags and successors of the records, accounts, receipts.
Restores(o, store, rcpts, st) ==
    /\ o.state.head_hash = st.head_hash
    /\ o.state.main_chain = st.main_chain
    /\ \A h \in DOMAIN store : h \in DOMAIN o.store /\ o.store[h] = store[h]
    /\ o.state.accounts = st.accounts
    /\ o.receipts = rcpts

AdmitsElection ==
    /\ state'.head_hash # state.head_hash
    /\ is_election_block(state'.main_chain.head)

\* The slots of the election block before the election head, the default
\* slots when the election head is the genesis block.
ParentElectionSlots ==
    IF state.election_head = GenesisBlock THEN DefaultSlots
    ELSE slots_from_block(chain_store[state.election_head.parent_election_hash].head)

SlotsOfElectionHead ==
    /\ state.current_slots # None
    /\ state.previous_slots # None
    /\ state.current_slots = slots_from_block(state.election_head)
    /\ state.election_head # GenesisBlock =>
           state.election_head.parent_election_hash \in DOMAIN chain_store
    /\ state.previous_slots = ParentElectionSlots

SlotsRotate ==
    IF AdmitsElection
    THEN /\ state'.previous_slots = state.current_slots
         /\ state'.current_slots = slots_from_block(state'.main_chain.head)
    ELSE /\ state'.previous_slots = state.previous_slots
         /\ state'.current_slots = state.current_slots

\* C20: the admission of an election macro block, through push or through
\* push_isolated_macro_block, makes previous_slots the old current_slots and
\* current_slots the slots of that block, and every other step leaves both
\* unchanged; in every state both are present, current_slots are the slots
\* of election_head and previous_slots the slots of the election block
\* before it (the default slots when election_head is the genesis block).
C20_SlotRotation == []SlotsOfElectionHead /\ [][SlotsRotate]_vars

\* C20 witness: an election block above the genesis block is the election
\* head and the slots of the genesis block are the previous slots.
C20_Witness ==
    /\ state.election_head # GenesisBlock
    /\ state.election_head_hash = Hash(state.election_head)
    /\ state.current_slots = Validators(state.election_head.block_number)
    /\ state.previous_slots = slots_from_block(GenesisBlock)
    /\ state.previous_slots # state.current_slots

\* The Reward inherents of a list, the one to the burn address included.
Rewards(inherents) == {i \in DOMAIN inherents : inherents[i].ty = "Reward"}

RECURSIVE SumValues(_, _)
SumValues(inherents, indices) ==
    IF indices = {} THEN 0
    ELSE LET i == CHOOSE x \in indices : TRUE
         IN inherents[i].value + SumValues(inherents, indices \ {i})

BurnValue(inherents) ==
    SumValues(inherents, {i \in Rewards(inherents) : inherents[i].target = BurnAddress})

Conserved(q) ==
    /\ ~q.result.panic
    /\ SumValues(q.result.inherents, Rewards(q.result.inherents))
           = q.block_reward + q.tx_fees
    /\ BurnValue(q.result.inherents)
           >= ((q.block_reward + q.tx_fees) \div SLOTS) * Cardinality(q.slashed_set)

\* C21: for an election block that closes an epoch above 0, every slashed
\* set over [0, SLOTS) and every pattern of validators that take or refuse
\* their reward, finalize_previous_epoch returns a list whose Reward
\* inherents, the one to the burn address included, sum to the block reward
\* plus the transaction fees, and the burn inherent is worth at least the
\* slot reward times the number of slashed slots.
C21_RewardConservation ==
    query.fn = "finalize_previous_epoch" /\ query.epoch > 0 => Conserved(query)

\* The number of views a block skipped.
SkippedViews(view_changes) ==
    IF view_changes = None THEN 0
    ELSE IF view_changes.last_view_number > view_changes.first_view_number
    THEN view_changes.last_view_number - view_changes.first_view_number
    ELSE 0

\* Every slot the call looks up can be loaded.
SlotsResolve(q) ==
    /\ \A i \in DOMAIN q.fork_proofs :
          get_slot_at(chain_store, state, q.fork_proofs[i].header1.block_number) # None
    /\ SkippedViews(q.view_changes) > 0 =>
          get_slot_at(chain_store, state, q.view_changes.block_number) # None

\* The list: one Slash inherent of value 0 for the validator registry per
\* fork proof, in the given order, then one per skipped view, ascending.
SlashList(q) ==
    LET list == q.result.inherents
        proofs == Len(q.fork_proofs)
    IN /\ Len(list) = proofs + SkippedViews(q.view_changes)
       /\ \A i \in DOMAIN list :
             /\ list[i].ty = "Slash"
             /\ list[i].value = 0
             /\ list[i].target = [validator_registry |-> TRUE]
       /\ \A i \in 1..proofs :
             /\ list[i].data.slot = q.fork_proofs[i].header1
             /\ list[i].data.event_block = q.fork_proofs[i].header1.block_number
       /\ \A k \in 1..SkippedViews(q.view_changes) :
             /\ list[proofs + k].data.slot =
                    [block_number |-> q.view_changes.block_number,
                     view_number |-> q.view_changes.first_view_number + k - 1]
             /\ list[proofs + k].data.event_block = q.view_changes.block_number

MicroAfterMacroHead ==
    {chain_store[h].head : h \in {k \in MainRecords :
        /\ chain_store[k].head.ty = "Micro"
        /\ chain_store[k].head.block_number > state.macro_info.head.block_number}}

\* The accounts without what the micro blocks after the macro head applied.
AccountsAtMacroHead ==
    {e \in state.accounts :
        \A m \in MicroAfterMacroHead : e.block_number # m.block_number}

\* The isolated block is admitted: the micro blocks after the macro head
\* are reverted, the block is applied with the transactions, and it is the
\* head and the macro head.
IsolatedAdmitted(o, block, transactions) ==
    /\ o.state.accounts =
           accounts_commit(AccountsAtMacroHead,
                           AccountsEntry(block.block_number, transactions, 0))
    /\ o.state.main_chain.head = block
    /\ o.state.head_hash = Hash(block)
    /\ o.state.macro_info.head = block
    /\ o.state.macro_head_hash = Hash(block)
    /\ Hash(block) \in DOMAIN o.store
    /\ o.store[Hash(block)].head = block
    /\ o.store[Hash(block)].on_main_chain

\* C23: push_isolated_macro_block rejects a block that is not a macro block
\* with InvalidSuccessor, a transaction list whose root is not the history
\* root of the block with InvalidHistoryRoot when the checks before it pass,
\* and a block without a justification that verifies; when it succeeds it
\* returns Extended, the micro blocks of the main chain after the macro head
\* are reverted, the block is applied with the transactions given, and the
\* block is the head and the macro head.
C23_IsolatedPush ==
    \A block \in IsolatedInputs :
        LET transactions == IsolatedTransactions(block)
            o == push_isolated_macro_block(block, transactions)
            wrong_root == block.history_root # compute_root_from_hashes(transactions)
        IN /\ block.ty # "Macro" => o.result = "InvalidSuccessor"
           /\ wrong_root => o.result # "Extended"
           /\ wrong_root /\ block.ty = "Macro" /\ BlockVerify(block)
                 /\ Hash(block) \notin DOMAIN chain_store
                 /\ block.parent_election_hash \in DOMAIN chain_store
                 /\ ~IsolatedNumberCheck(block, chain_store[block.parent_election_hash])
                 /\ (is_election_block(block) =>
                        state.election_head_hash = block.parent_election_hash)
                 => o.result = "InvalidHistoryRoot"
           /\ block.justification # "Valid" => o.result # "Extended"
           /\ o.result \in {"InvalidSuccessor", "InvalidHistoryRoot", "NoJustification"}
                 => NoChange(o) /\ o.events = <<>>
           /\ o.result \in Oks => o.result \in {"Extended", "Known"}
           /\ o.result = "Extended" => IsolatedAdmitted(o, block, transactions)

\* The heights of the hashes of a list of locators of the linear chain.
HeightOf(hash) == IF hash = GenesisHash THEN 0 ELSE hash.height

\* The list starts with the head hash and goes on with the next (up to 10)
\* ancestors, one by one.
TopLinear(list, height) ==
    /\ list[1] = LinearHash(height)
    /\ \A i \in 1..Min(10, height) :
          i + 1 <= Len(list) => list[i + 1] = LinearHash(height - i)

\* C24: for every chain height and every max_count >= 1 the list of
\* get_block_locators starts with the head hash, goes on with the next (up
\* to 10) ancestors one by one and then with blocks of growing distance,
\* ends with the genesis hash and holds at most max_count hashes.
C24_BlockLocators ==
    query.fn = "get_block_locators" =>
        /\ Len(query.result) >= 1
        /\ TopLinear(query.result, query.height)
        /\ query.result[Len(query.result)] = GenesisHash
        /\ Len(query.result) <= query.max_count

\* The hash of a macro (or election) block of the main chain.
MacroHashOnMain(hash, election_blocks_only) ==
    /\ MacroOnMain(chain_store, hash)
    /\ election_blocks_only => is_election_block(chain_store[hash].head)

\* The locators start with a hash and walk back over the macro (election)
\* blocks before it, down to the genesis hash.
WalksBack(list, first, election_blocks_only) ==
    /\ Len(list) >= 1
    /\ list[1] = first
    /\ \A i \in DOMAIN list : MacroHashOnMain(list[i], election_blocks_only)
    /\ \A i \in 1..Len(list) - 1 :
          chain_store[list[i + 1]].head.block_number
              <= chain_store[list[i]].head.block_number
    /\ list[Len(list)] = GenesisHash

\* C25: in every state get_macro_block_locators and
\* get_election_block_locators return; every hash they return is the hash
\* of a macro (election) block of the main chain; the list starts with the
\* macro (election) head, walks back over the macro (election) blocks
\* before it and ends with the genesis hash.
C25_MacroLocators ==
    \A max_count \in 1..MaxCount :
        LET macros == get_macro_locators(chain_store, state, max_count, FALSE)
            elections == get_macro_locators(chain_store, state, max_count, TRUE)
        IN /\ ~macros.panic
           /\ ~elections.panic
           /\ WalksBack(macros.locators, state.macro_head_hash, FALSE)
           /\ WalksBack(elections.locators, state.election_head_hash, TRUE)

\* The block is a successor of the head with the fields the producer
\* contract names, and push extends the chain with it.
ValidSuccessor(block, ty) ==
    LET head == state.main_chain.head
    IN /\ block.block_number = head.block_number + 1
       /\ block.parent_hash = state.head_hash
       /\ block.timestamp = head.timestamp + 1
       /\ block.ty = ty
       /\ ty = get_next_block_type(head.block_number)
       /\ push_block(block).result = "Extended"

\* C26: on every head below the height bound, the block the producer
\* builds with the default configuration (a micro block at a micro height,
\* a finalized macro block at a macro height) has the head's number plus
\* one, the head's hash as parent, the head's timestamp plus one and the
\* type of its height, and push returns Extended for it.
C26_ProducerValidity ==
    state.main_chain.head.block_number < MaxHeight =>
        IF is_macro_block_at(state.main_chain.head.block_number + 1)
        THEN ValidSuccessor(ProducedBlock(next_macro_block(state, 0)), "Macro")
        ELSE ValidSuccessor(next_micro_block(state), "Micro")

\* The pre-commit vote for the hash in the round of the proposal.
PreCommitOf(proposal, block_hash) ==
    [proposal_hash |-> block_hash,
     id |-> [block_number |-> proposal.value.block_number,
             step |-> "PreCommit",
             round_number |-> proposal.round]]

\* C27: the block finalize_macro_block returns has the proposal's value as
\* header; its proof is signed by exactly the slots 0..SLOTS-1 over the
\* pre-commit vote of the proposal's round, and carries that same round, for
\* every round of the proposal.
C27_MacroFinalization ==
    query.fn = "finalize_macro_block" =>
        LET proof == query.result.justification
        IN /\ query.result.header = query.proposal.value
           /\ proof.sig.signers = 0..(SLOTS - 1)
           /\ proof.sig.signed = PreCommitOf(query.proposal, query.block_hash)
           /\ proof.round = query.proposal.round
           /\ proof.round = proof.sig.signed.id.round_number

\* The records of the blocks stored at the height of b with its view number.
SameSlot(b) ==
    {h \in DOMAIN chain_store :
        /\ chain_store[h].head.block_number = b.block_number
        /\ chain_store[h].head.view_number = b.view_number}

\* A micro block that reaches the fork detection of push: it is new, not
\* Inferior, and passes the header and the slot owner's signature checks.
PassedVerification(b) ==
    /\ b.ty = "Micro"
    /\ Classifies(b)
    /\ ChainOrder(b) \notin {"Panic", "Inferior"}
    /\ Verified(b)

\* One Detected event per stored block of the slot, each with the header of
\* b and the header of the stored block.
DetectedOnce(o, b) ==
    /\ Cardinality(o.fork_events) = Cardinality(SameSlot(b))
    /\ \A h \in SameSlot(b) :
          /\ Hash(chain_store[h].head) # Hash(b)
          /\ [header1 |-> Hash(b), header2 |-> Hash(chain_store[h].head)]
                 \in o.fork_events

\* The block has the height and the view number of the head.
SecondAtHead(b) ==
    /\ b.block_number = state.main_chain.head.block_number
    /\ b.view_number = state.main_chain.head.view_number

\* C28: the push of a micro block that passed the header and signature
\* verification emits exactly one Detected event for each block stored at
\* its height with its view number and none when there is no such block;
\* the events leave the chain state alone: a push that fails changes
\* nothing, and a push that returns Forked only adds the record of the
\* block; a verified block at the head's height with the head's view
\* number is stored as a fork and the push returns Forked.
C28_DoubleSignDetection ==
    \A b \in PushInputs :
        LET o == push_block(b)
        IN PassedVerification(b) =>
              /\ DetectedOnce(o, b)
              /\ Failed(o) => NoOp(o)
              /\ o.result = "Forked" =>
                     /\ ForkStored(o, b)
                     /\ o.state = state
                     /\ o.receipts = receipts
              /\ SecondAtHead(b) =>
                     /\ o.result = "Forked"
                     /\ o.fork_events # {}

\* The predecessor of the block is stored, the block is not classified
\* Inferior, and its number is not the number after its predecessor's.
WrongNumber(b) ==
    /\ b.parent_hash \in DOMAIN chain_store
    /\ ChainOrder(b) # "Inferior"
    /\ b.block_number # chain_store[b.parent_hash].head.block_number + 1

\* C29: the push of a block with a stored predecessor that is not
\* classified Inferior and whose number differs from its predecessor's
\* number plus one returns InvalidSuccessor and changes nothing.
C29_WrongBlockNumber ==
    \A b \in PushInputs :
        LET o == push_block(b)
        IN WrongNumber(b) => o.result = "InvalidSuccessor" /\ PureNoOp(o)

\* The checks of a header in the order of the verifier, each with the error
\* it stands for; the checks after the first are read against the
\* predecessor.
HeaderChecks(header, view_change_proof) ==
    LET known == header.parent_hash \in DOMAIN HeaderStore
        prev == IF known THEN HeaderStore[header.parent_hash].head ELSE GenesisBlock
        view == IF is_macro_block_at(header.block_number - 1) THEN 0 ELSE prev.view_number
    IN << [fails |-> ~known, error |-> "Orphan"],
          [fails |-> header.ty # (IF is_macro_block_at(prev.block_number + 1)
                                  THEN "Macro" ELSE "Micro"),
           error |-> "InvalidSuccessor"],
          [fails |-> header.block_number # prev.block_number + 1,
           error |-> "InvalidSuccessor"],
          [fails |-> header.timestamp <= prev.timestamp, error |-> "InvalidSuccessor"],
          [fails |-> header.timestamp - Now > TIMESTAMP_MAX_DRIFT,
           error |-> "FromTheFuture"],
          [fails |-> header.view_number < view, error |-> "InvalidViewNumber"],
          [fails |-> header.view_number > view /\ view_change_proof = "None",
           error |-> "NoViewChangeProof"],
          [fails |-> \/ header.view_number > view /\ view_change_proof = "Invalid"
                     \/ /\ header.view_number = view
                        /\ view_change_proof \in {"Valid", "Invalid"},
           error |-> "InvalidJustification"],
          [fails |-> header.seed # "Valid", error |-> "InvalidJustification"],
          [fails |-> /\ header.ty = "Macro"
                     /\ header.parent_election_hash # state.election_head_hash,
           error |-> "InvalidSuccessor"] >>

\* The indices of the checks that fail.
FailingChecks(checks) == {i \in DOMAIN checks : checks[i].fails}

\* The error of the first failing check, Ok when none fails.
FirstError(checks) ==
    IF FailingChecks(checks) = {} THEN "Ok"
    ELSE checks[CHOOSE i \in FailingChecks(checks) :
                    \A j \in FailingChecks(checks) : i <= j].error

Rebranching(b) ==
    /\ Verified(b)
    /\ ChainOrder(b) = "Better"
    /\ \A x \in BranchOf(b) : x.ty = "Micro"

\* The block branches off at the macro head, beside the head, and commits
\* to the accounts its own entry gives on top of the macro head's.
OffMacroHead(b) ==
    /\ b.parent_hash = state.macro_head_hash
    /\ chain_store[b.parent_hash].on_main_chain
    /\ state.main_chain.head.parent_hash = state.macro_head_hash
    /\ b.transactions = {}
    /\ b.state_root =
           accounts_commit(chain_store[b.parent_hash].head.state_root,
                           AccountsEntry(b.block_number, {},
                                         ViewChangeSlashes(0, b.view_number)))

\* C31 (as amended): a rebranch is carried out only when the common
\* ancestor of the fork and the main chain is the macro head or a block
\* after it (ancestor number >= macro head number); a Better branch whose
\* ancestor lies before the macro head is rejected with InvalidFork and
\* changes nothing, while on a chain built by pushes a well-formed Better
\* block that branches off at the macro head itself is rebranched to. Only
\* blocks classified Better reach rebranch.
C31_RebranchPrecondition ==
    \A b \in BranchInputs :
        ChainOrder(b) = "Better" =>
            LET o == push_block(b)
                ancestor_number == AncestorOf(b).block_number
                macro_number == state.macro_info.head.block_number
            IN /\ o.result = "Rebranched" => ancestor_number >= macro_number
               /\ Rebranching(b) /\ ancestor_number < macro_number =>
                      o.result = "InvalidFork" /\ NoChange(o)
               /\ isolated = 0 /\ Rebranching(b) /\ OffMacroHead(b) =>
                      o.result = "Rebranched"

\* C31 witness: on a chain built by pushes, a Better block that branches
\* off at a macro head above genesis is rebranched to.
C31_Witness ==
    /\ isolated = 0
    /\ state.macro_info.head.block_number >= BATCH_LENGTH
    /\ \E b \in BranchInputs :
          /\ Rebranching(b) /\ OffMacroHead(b)
          /\ AncestorOf(b).block_number = state.macro_info.head.block_number
          /\ push_block(b).result = "Rebranched"

\* C31 as stated: a rebranch is carried out only when the common ancestor
\* lies strictly after the macro head.
C31_RebranchStrictlyAfter ==
    \A b \in BranchInputs :
        push_block(b).result = "Rebranched" =>
            AncestorOf(b).block_number > state.macro_info.head.block_number

\* The fork a block is the tip of, from the first block off the main chain.
RECURSIVE ForkTo(_, _)
ForkTo(store, block) ==
    IF block.parent_hash \in DOMAIN store /\ ~store[block.parent_hash].on_main_chain
    THEN Append(ForkTo(store, store[block.parent_hash].head), block)
    ELSE <<block>>

\* A fork block that cannot be applied: its state root is not the root of
\* the accounts after its commit, or a transaction of it is in an earlier
\* block of the fork.
CannotApply(fork, i) ==
    \/ fork[i].state_root = WrongRoot
    \/ \E j \in 1..(i - 1) : fork[j].transactions \cap fork[i].transactions # {}

\* After a failed replay the blocks before the rejected one are stored off
\* the main chain, and the rejected block and the blocks after it are not
\* in the store; nothing else changed.
ReplayRemoved(fork, first) ==
    /\ query.result = "InvalidFork"
    /\ state = query.state
    /\ receipts = query.receipts
    /\ \A h \in DOMAIN chain_store : h \in DOMAIN query.store /\ chain_store[h] = query.store[h]
    /\ \A i \in DOMAIN fork :
          IF i < first
          THEN Hash(fork[i]) \in DOMAIN chain_store /\ ~chain_store[Hash(fork[i])].on_main_chain
          ELSE Hash(fork[i]) \notin DOMAIN chain_store
    /\ DOMAIN query.store \ DOMAIN chain_store \subseteq {Hash(fork[i]) : i \in DOMAIN fork}

\* C32: when a fork block cannot be applied during a rebranch, the call
\* returns InvalidFork, the accounts, the head, the replay cache and the
\* main-chain flags are as before, the blocks of the fork before the
\* rejected one stay stored off the main chain, and neither the store nor a
\* lookup by height returns the rejected block or a block after it.
C32_FailedForkReplay ==
    query.fn = "rebranch" =>
        LET fork == ForkTo(query.store, query.block)
            bad == {i \in DOMAIN fork : CannotApply(fork, i)}
        IN bad # {} =>
              LET first == CHOOSE i \in bad : \A j \in bad : i <= j
              IN /\ ReplayRemoved(fork, first)
                 /\ \A i \in first..Len(fork) :
                       Hash(fork[i]) \notin IndexedAt(query.height_idx, fork[i].block_number)

\* The revert of the main chain that the rebranch to the block starts with.
RevertFor(b) ==
    RevertWalk(chain_store, receipts, Entry(state.head_hash, state.main_chain),
               AncestorHash(b), state.accounts, state.transaction_cache, <<>>)

\* The revert of the batch that push_isolated_macro_block starts with.
RevertIsolated ==
    LET blocks_to_revert == get_blocks_forward(chain_store, state.macro_head_hash,
                                               EPOCH_LENGTH - 1)
    IN RevertBatch(blocks_to_revert, Len(blocks_to_revert), receipts,
                   state.accounts, state.transaction_cache)

\* C33: on a chain that pushes built, every revert of main-chain micro
\* blocks, in a rebranch and in a push of an isolated macro block, undoes
\* what the commit of the block did: the view changes are regenerated from
\* the first view number of the commit, and the accounts root is the
\* predecessor's state root afterwards (no revert fails).
C33_RevertMirrorsCommit ==
    isolated = 0 =>
        /\ \A b \in BranchInputs :
              Rebranching(b) /\ ~AncestorFinalized(AncestorOf(b).block_number,
                                                   state.macro_info.head.block_number)
                  => ~RevertFor(b).panic
        /\ RevertIsolated.err # "Panic"

\* The first slot number of the band of validator i.
RECURSIVE BandFirst(_, _)
BandFirst(validator_slots, i) ==
    IF i = 1 THEN 0 ELSE BandFirst(validator_slots, i - 1) + validator_slots[i - 1]

\* The slashed slots of the band of validator i.
SlashedOfBand(q, i) ==
    {s \in q.slashed_set :
        /\ s >= BandFirst(q.validator_slots, i)
        /\ s < BandFirst(q.validator_slots, i) + q.validator_slots[i]}

\* The reward of the band: the slot reward for every slot not slashed.
BandReward(q, i) ==
    ((q.block_reward + q.tx_fees) \div SLOTS)
        * (q.validator_slots[i] - Cardinality(SlashedOfBand(q, i)))

\* C34: for every slashed set over [0, SLOTS), the empty one or not,
\* finalize_previous_epoch completes and returns its list, and a validator
\* that takes its reward gets the slot reward for every slot of its band
\* that is not slashed, each slashed slot counted once (the remainder of
\* the pot goes to one of the rewards).
C34_PerBandSlashes ==
    (/\ query.fn = "finalize_previous_epoch"
     /\ query.epoch > 0
     /\ \E i \in DOMAIN query.accepts : query.accepts[i])
        => /\ ~query.result.panic
           /\ \A i \in DOMAIN query.validator_slots :
                 query.accepts[i] =>
                     \E k \in DOMAIN query.result.inherents :
                        /\ query.result.inherents[k].target = RewardAddress(i)
                        /\ query.result.inherents[k].value \in
                               {BandReward(query, i),
                                BandReward(query, i)
                                    + ((query.block_reward + query.tx_fees) % SLOTS)}

\* The list is in the canonical order of transactions.
Sorted(list) == \A i, j \in DOMAIN list : i < j => list[i] <= list[j]

\* C35: for every list of transactions of the BlockConfig, in any order,
\* the body of the block next_micro_block returns lists the transactions in
\* sorted order, the order the state root and the history root were
\* computed from.
C35_CanonicalOrder ==
    query.fn = "next_micro_block" =>
        /\ Sorted(query.result.body.transactions)
        /\ query.result.body.transactions = query.result.header.history_root
        /\ query.result.header.state_root =
               accounts_hash(accounts_commit(query.accounts,
                   AccountsEntry(query.result.header.block_number,
                                 query.result.body.transactions, 0)))

\* C36: producing a micro block or a macro proposal leaves the chain
\* store, the receipts, the history store and the in-memory state (head,
\* accounts, replay cache, slots) as they were: every step of the producer
\* leaves them unchanged, and the environment after the abort of the write
\* transaction is the environment before it.
C36_ProductionSideEffectFree ==
    [][query' # query => /\ UNCHANGED chainVars
                         /\ query'.pc = "done" => query'.env = Env]_vars

C36_Witness ==
    /\ query.fn = "next_macro_block_proposal"
    /\ query.pc = "done"
    /\ query.result.history_root # query.env.history
    /\ query.env = Env

\* The values a producer reads from the head of the given record.
FromHead(q, h) ==
    LET head == chain_store[h].head
    IN /\ q.block_number = head.block_number + 1
       /\ q.timestamp = head.timestamp + 1
       /\ q.parent_hash = h
       /\ q.prev_seed = h
       /\ q.view_number = next_view_number(head)
       /\ q.state_root = accounts_hash(accounts_commit(head.state_root,
                              AccountsEntry(head.block_number + 1, {}, 0)))
       /\ \A e \in q.history_root : e.block_number <= head.block_number + 1

\* C37: with pushes beside the production, the block number, timestamp,
\* parent hash, seed, view number, state root and history root of a
\* produced micro block all come from one head.
C37_OneHead ==
    query.fn = "next_micro_block" /\ query.pc = "done"
        => \E h \in DOMAIN chain_store : FromHead(query, h)

\* C38: the constraints of the merger circuit are satisfied exactly when
\* the witness verifying key matches the public commitment, the macro block
\* wrapper proof verifies, and either the genesis flag is set and the
\* initial and intermediate state commitments are equal (whether or not the
\* merger wrapper proof verifies), or the flag is not set and the merger
\* wrapper proof verifies (whether or not the commitments are equal).
C38_GenesisFlag ==
    query.fn = "merger_circuit" =>
        LET c == query.circuit
        IN query.satisfied <=>
              /\ c.vk_commitment = VKCommitment(c.vk_merger_wrapper)
              /\ c.macro_verifies
              /\ IF c.genesis_flag
                 THEN c.initial_state_commitment = c.intermediate_state_commitment
                 ELSE c.merger_verifies

MacroNumber == state.macro_info.head.block_number

\* C39: through every push and push_isolated_macro_block the block number
\* of the macro head never decreases, and the head is never below the macro
\* head.
C39_MacroHeadMonotone ==
    /\ [](HeadNumber >= MacroNumber)
    /\ [][MacroNumber' >= MacroNumber]_vars

\* The state a re-opened chain manager starts with.
Loaded == load(chain_store, state.head_hash, state.accounts)

\* The loaded state shows the heads and the slots of the live state, and its
\* replay cache holds the transactions that the live cache holds.
SameHeads(loaded) ==
    /\ loaded.head_hash = state.head_hash
    /\ loaded.main_chain.head = state.main_chain.head
    /\ loaded.macro_info.head = state.macro_info.head
    /\ loaded.macro_head_hash = state.macro_head_hash
    /\ loaded.election_head = state.election_head
    /\ loaded.election_head_hash = state.election_head_hash
    /\ loaded.current_slots = state.current_slots
    /\ loaded.previous_slots = state.previous_slots
    /\ cache_hashes(loaded.transaction_cache) = cache_hashes(state.transaction_cache)

\* C40: after every sequence of completed push and push_isolated_macro_block
\* calls, loading the chain manager from the persisted environment succeeds
\* and yields the head, the macro head, the election head, the current and
\* previous slots and the replay-cache contents of the live state; on the store
\* that init leaves, these are the genesis block, its slots, the default
\* previous slots and an empty replay cache.
C40_RestartEquivalence ==
    /\ Loaded.result = "Ok"
    /\ SameHeads(Loaded.state)
    /\ DOMAIN chain_store = {GenesisHash} =>
          /\ state.main_chain.head = GenesisBlock
          /\ state.macro_info.head = GenesisBlock
          /\ state.election_head = GenesisBlock
          /\ state.previous_slots = DefaultSlots
          /\ state.transaction_cache = <<>>
====
